---- MODULE Spec2Model ----
(***************************************************************************)
(* Model of the sailing game (src/js/sailing-game.js) and of the POI       *)
(* button renderer (src/unnamed/part_003).                                 *)
(*                                                                         *)
(* Units.  Chunk coordinates and POI coordinates are decimal numbers with  *)
(* one fractional digit in the data the program reads (0.5, 5.6, 59.3).    *)
(* They are kept here as integers counting tenths, so chunkSize 0.5 is 5   *)
(* and the boat's start column 5.6 is 56.  World positions are pixels.     *)
(* All arithmetic the streaming cache does on these values is exact in     *)
(* IEEE doubles (multiples of 0.5 and small integers), so the integer      *)
(* model computes what the code computes.                                  *)
(***************************************************************************)
EXTENDS Integers, Sequences, FiniteSets, Bags, TLC

VARIABLES
    boat,                \* this.boat: position, heading, speed, rudder and sail
    coastline,           \* this.coastline: chunks, manifests, flags, graphics
    pending,             \* promises not yet settled (manifest, asset and POI fetches)
    coastlineContainer,  \* this.coastlineContainer: its children
    unhandled,           \* TRUE once a promise rejected with no handler
    wind,                \* this.wind: angle and targetAngle
    keys,                \* this.keys: which keys are down
    keyPressTime,        \* this.keyPressTime: when each key went down
    mouseDown,           \* this.mouseDown: left and right
    buttonPressTime,     \* this.buttonPressTime: when each on-screen button went down
    isPanelOpen,         \* this.isPanelOpen
    now,                 \* Date.now(), in milliseconds since the page loaded
    currentPoi,          \* this.currentPoi: the POI the panel was opened for
    tweens,              \* the gsap tweens of globalZoom that have not completed
    time,                \* this.time, counted in calls of gameLoop
    stale,               \* history: asset fetches in flight whose entry is gone, by key
    lastOp,              \* history: the step taken last
    lastPass,            \* history: what the latest updateChunks() pass did
    lastWind,            \* history: what the latest updateWind() did
    lastInput            \* history: the input event or frame handled last

cacheVars == <<coastline, pending, coastlineContainer, unhandled, lastOp, lastPass>>
inputVars == <<keys, keyPressTime, mouseDown, buttonPressTime, isPanelOpen, now, lastInput>>
windVars == <<wind, lastWind>>
panelVars == <<currentPoi, tweens, time>>

vars == <<boat, coastline, pending, coastlineContainer, unhandled, wind, keys,
          keyPressTime, mouseDown, buttonPressTime, isPanelOpen, now,
          currentPoi, tweens, time,
          stale, lastOp, lastPass, lastWind, lastInput>>

(***************************************************************************)
(* Program constants                                                       *)
(***************************************************************************)
chunkPixelSize == 1800
chunkSize == 5
loadDistance == 2
poiInteractionRadius == 80
poiInteractionRadiusSquared == poiInteractionRadius * poiInteractionRadius
BoatStartX == 56
BoatStartY == -593

NULL == "null"
NoKey == <<>>

(***************************************************************************)
(* Bounds of the model                                                     *)
(***************************************************************************)
\* The boat sails inside a square that has its start position as the
\* north-west corner: at most MaxDrift moves east and MaxDrift moves south.
MaxDrift == 2
\* Most fetches for one chunk key that are in flight at once.
MaxInFlight == 2
\* Most button graphics in the container that were made for one POI.
MaxButtons == 2

\* One move of the boat between two passes of the game loop that see it in
\* different chunks: the physics step itself is at most maxSpeed plus the
\* tidal drift per tick, far less than a chunk, so the boat's chunk changes
\* by at most one per axis per tick.
Step == chunkPixelSize

(***************************************************************************)
(* External data: the files the program fetches                            *)
(***************************************************************************)
\* map/chunks/index.csv: a chunk far from the sailing area and the chunk
\* two columns west and two rows north of the boat's start chunk (55, 595);
\* every other coordinate, the start chunk included, has no record.
ChunkManifest ==
    << [x |-> 0, y |-> 0, fileName |-> "chunk_0_0.png"],
       [x |-> 45, y |-> 605, fileName |-> "chunk_45_605.png"] >>

\* pois/chunks/index.csv: only the north-west chunk has POI data.
PoiManifest ==
    << [x |-> 45, y |-> 605, fileName |-> "pois_45_605.json"] >>

\* pois/<fileName>: two POIs inside the chunk, closer to each other than
\* a tenth of a degree; the first has a zoomBox (minLon, minLat, maxLon,
\* maxLat), the second has none.
PoiFile(fileName) ==
    IF fileName = "pois_45_605.json"
    THEN << [x |-> 47, y |-> 607, name |-> "harbour", zoomBox |-> <<46, 606, 48, 608>>],
            [x |-> 47, y |-> 607, name |-> "lighthouse", zoomBox |-> << >>] >>
    ELSE << >>

(***************************************************************************)
(* Helpers                                                                 *)
(***************************************************************************)
Abs(n) == IF n < 0 THEN -n ELSE n

\* Array.prototype.find over a manifest: the position of the first record
\* with these coordinates, 0 when there is none (find returns undefined).
RECURSIVE FindFrom(_, _, _, _)
FindFrom(index, x, y, i) ==
    IF i > Len(index) THEN 0
    ELSE IF index[i].x = x /\ index[i].y = y THEN i
    ELSE FindFrom(index, x, y, i + 1)

Find(index, x, y) == FindFrom(index, x, y, 1)

EmptyMap == [k \in {} |-> k]

Restrict(f, S) == [k \in S |-> f[k]]

\* The program state the operations below transform.
This ==
    [ boat |-> boat,
      coastline |-> coastline,
      pending |-> pending,
      coastlineContainer |-> coastlineContainer,
      unhandled |-> unhandled ]

(***************************************************************************)
(* Chunk addressing                                                        *)
(***************************************************************************)
getChunkKey(chunkX, chunkY) == <<chunkX, chunkY>>

\* The same without the change of sign on the y axis.
getChunkCoordsNoFlip(worldX, worldY) ==
    [ chunkX |-> (worldX \div chunkPixelSize) * chunkSize,
      chunkY |-> (worldY \div chunkPixelSize) * chunkSize ]

getChunkCoordsFromWorldPos(worldX, worldY) ==
    [ chunkX |-> (worldX \div chunkPixelSize) * chunkSize,
      chunkY |-> (-(worldY \div chunkPixelSize)) * chunkSize ]

(***************************************************************************)
(* loadPois and loadChunk                                                  *)
(***************************************************************************)
loadPois(g, chunkX, chunkY) ==
    LET key == getChunkKey(chunkX, chunkY)
        found == Find(g.coastline.poiIndex, chunkX, chunkY)
        poiData == g.coastline.poiIndex[found]
    IN  IF key \notin DOMAIN g.coastline.chunks THEN g
        ELSE IF found = 0 THEN g
        ELSE [g EXCEPT !.pending.pois = @ (+) SetToBag({[key |-> key, fileName |-> poiData.fileName]})]

\* loadChunk with the residency test made on the key of the coordinates
\* taken in the wrong order.
loadChunkHasSwapped(g, chunkX, chunkY) ==
    LET key == getChunkKey(chunkX, chunkY)
        found == Find(g.coastline.chunkIndex, chunkX, chunkY)
        chunkData == g.coastline.chunkIndex[found]
        entry == [x |-> chunkX, y |-> chunkY, texture |-> NULL, loaded |-> FALSE, pois |-> << >>]
    IN  IF getChunkKey(chunkY, chunkX) \in DOMAIN g.coastline.chunks THEN g
        ELSE IF found = 0 THEN g
        ELSE loadPois(
                [g EXCEPT !.coastline.chunks = (key :> entry) @@ @,
                          !.pending.assets = @ (+) SetToBag({[key |-> key, fileName |-> chunkData.fileName]})],
                chunkX, chunkY)

loadChunk(g, chunkX, chunkY) ==
    LET key == getChunkKey(chunkX, chunkY)
        found == Find(g.coastline.chunkIndex, chunkX, chunkY)
        chunkData == g.coastline.chunkIndex[found]
        entry == [x |-> chunkX, y |-> chunkY, texture |-> NULL, loaded |-> FALSE, pois |-> << >>]
    IN  IF key \in DOMAIN g.coastline.chunks THEN g
        ELSE IF found = 0 THEN g
        ELSE loadPois(
                [g EXCEPT !.coastline.chunks = (key :> entry) @@ @,
                          !.pending.assets = @ (+) SetToBag({[key |-> key, fileName |-> chunkData.fileName]})],
                chunkX, chunkY)

(***************************************************************************)
(* updateChunks                                                            *)
(***************************************************************************)
\* The loop condition "d <= loadDist" of lines 263 and 264, negated; and
\* the same with "<" for "<=".
loopDoneExclusive(d) == d >= loadDistance

loopDone(d) == d > loadDistance

\* The inner loop, over dy, from dy on.  updateChunks enters the loops only
\* with the manifest loaded (line 256) and loadChunk leaves that flag alone;
\* reading it after each call makes the call's result a value before the
\* next turn starts, as in the source.
RECURSIVE loadRow(_, _, _, _, _)
loadRow(g, chunkX, chunkY, dx, dy) ==
    IF loopDone(dy) THEN g
    ELSE LET g1 == loadChunk(g, chunkX + dx * chunkSize, chunkY + dy * chunkSize)
         IN  IF g1.coastline.indexLoaded
             THEN loadRow(g1, chunkX, chunkY, dx, dy + 1)
             ELSE g1

\* The outer loop, over dx, from dx on.
RECURSIVE loadLoop(_, _, _, _)
loadLoop(g, chunkX, chunkY, dx) ==
    IF loopDone(dx) THEN g
    ELSE LET g1 == loadRow(g, chunkX, chunkY, dx, -loadDistance)
         IN  IF g1.coastline.indexLoaded
             THEN loadLoop(g1, chunkX, chunkY, dx + 1)
             ELSE g1

unloadDistNoMargin == loadDistance * chunkSize

unloadDist == (loadDistance + 1) * chunkSize

shouldRemoveBothAxes(chunk, chunkX, chunkY) ==
    Abs(chunk.x - chunkX) > unloadDist /\ Abs(chunk.y - chunkY) > unloadDist

\* The test of line 276.
shouldRemove(chunk, chunkX, chunkY) ==
    Abs(chunk.x - chunkX) > unloadDist \/ Abs(chunk.y - chunkY) > unloadDist

chunksToRemove(g, chunkX, chunkY) ==
    { key \in DOMAIN g.coastline.chunks :
        shouldRemove(g.coastline.chunks[key], chunkX, chunkY) }

\* One pass of updateChunks, with what it did along the way: ran (the
\* manifest was loaded), created (keys the load loops added), evicted (keys
\* the unload loop removed) and the state it returns in.
updateChunksPass(g) ==
    LET c == getChunkCoordsFromWorldPos(g.boat.x, g.boat.y)
        g1 == loadLoop(g, c.chunkX, c.chunkY, -loadDistance)
        gone == chunksToRemove(g1, c.chunkX, c.chunkY)
    IN  IF ~g.coastline.indexLoaded
        THEN [ran |-> FALSE, created |-> {}, evicted |-> {}, result |-> g]
        ELSE [ran |-> TRUE,
              created |-> DOMAIN g1.coastline.chunks \ DOMAIN g.coastline.chunks,
              evicted |-> gone,
              result |->
                [g1 EXCEPT
                    !.coastlineContainer.chunks = @ \ gone,
                    !.coastline.graphics = @ \ gone,
                    !.coastline.chunks = Restrict(@, DOMAIN @ \ gone)]]

updateChunks(g) == updateChunksPass(g).result

(***************************************************************************)
(* POI buttons (ButtonGraphics) and drawCoastline                          *)
(***************************************************************************)
\* new ButtonGraphics(...): interactive and visible when constructed.
\* calls is history: how often setInteractive was invoked on the button.
newButtonGraphics ==
    [isInteractive |-> TRUE, eventMode |-> "static", visible |-> TRUE, calls |-> 0]

setInteractive(button, isInteractive) ==
    [button EXCEPT !.isInteractive = isInteractive,
                   !.eventMode = IF isInteractive THEN "static" ELSE "none",
                   !.calls = @ + 1]

\* ButtonGraphics.hide and ButtonGraphics.show.
hide(button) == [button EXCEPT !.visible = FALSE]

show(button) == [button EXCEPT !.visible = TRUE]

\* The squared distance of lines 786-790.
distanceSquared(poi, b) ==
    LET poiWorldX == (poi.x * chunkPixelSize) \div chunkSize
        poiWorldY == ((-poi.y) * chunkPixelSize) \div chunkSize
        dx == poiWorldX - b.x
        dy == poiWorldY - b.y
    IN  dx * dx + dy * dy

\* The same with "<" for "<=" in the test of line 793.
drawPoiStrict(poi, b) ==
    LET renderer == IF poi.renderer = << >> THEN newButtonGraphics ELSE poi.renderer[1]
        isInRange == distanceSquared(poi, b) < poiInteractionRadiusSquared
    IN  [poi EXCEPT !.renderer =
            << IF renderer.isInteractive # isInRange
               THEN setInteractive(renderer, isInRange)
               ELSE renderer >>]

\* The same with setInteractive called in every frame.
drawPoiAlways(poi, b) ==
    LET renderer == IF poi.renderer = << >> THEN newButtonGraphics ELSE poi.renderer[1]
        isInRange == distanceSquared(poi, b) <= poiInteractionRadiusSquared
    IN  [poi EXCEPT !.renderer = << setInteractive(renderer, isInRange) >>]

\* One turn of the loop over chunk.pois: poi.renderer is a one-element
\* tuple holding the button, or the empty tuple while the POI has none.
drawPoi(poi, b) ==
    LET renderer == IF poi.renderer = << >> THEN newButtonGraphics ELSE poi.renderer[1]
        isInRange == distanceSquared(poi, b) <= poiInteractionRadiusSquared
    IN  [poi EXCEPT !.renderer =
            << IF renderer.isInteractive # isInRange
               THEN setInteractive(renderer, isInRange)
               ELSE renderer >>]

\* The chunks the loop of line 753 does not skip.
drawable(g) ==
    { key \in DOMAIN g.coastline.chunks :
        g.coastline.chunks[key].loaded /\ g.coastline.chunks[key].texture # NULL }

\* The buttons createPoiButton adds to the container in this frame, named
\* by chunk key and position in the chunk's POI list.
newButtons(g) ==
    { id \in UNION { { <<key, i>> : i \in DOMAIN g.coastline.chunks[key].pois } : key \in drawable(g) } :
        g.coastline.chunks[id[1]].pois[id[2]].renderer = << >> }

drawCoastline(g) ==
    IF ~g.coastline.indexLoaded \/ DOMAIN g.coastline.chunks = {} THEN g
    ELSE
        [g EXCEPT
            !.coastline.graphics = @ \cup drawable(g),
            !.coastlineContainer.chunks = @ \cup (drawable(g) \ g.coastline.graphics),
            !.coastlineContainer.buttons = @ (+) SetToBag(newButtons(g)),
            !.coastline.chunks =
                [ key \in DOMAIN @ |->
                    IF key \in drawable(g)
                    THEN [@[key] EXCEPT !.pois = [i \in DOMAIN @ |-> drawPoi(@[i], g.boat)]]
                    ELSE @[key] ]]

(***************************************************************************)
(* Promise callbacks                                                       *)
(***************************************************************************)
\* loadChunk, the callback of .then: lines 213-219.
assetThenCreates(g, key, texture) ==
    [g EXCEPT !.coastline.chunks =
        (key :> [x |-> key[1], y |-> key[2], texture |-> texture, loaded |-> TRUE, pois |-> << >>]) @@ @]

assetThen(g, key, texture) ==
    IF key \in DOMAIN g.coastline.chunks
    THEN [g EXCEPT !.coastline.chunks[key].texture = texture,
                   !.coastline.chunks[key].loaded = TRUE]
    ELSE g

\* loadChunk, the callback of .catch: lines 220-223.
assetCatchKeeps(g, key) == g

assetCatch(g, key) ==
    [g EXCEPT !.coastline.chunks = Restrict(@, DOMAIN @ \ {key})]

\* loadPois, the callback of the second .then: lines 247-249.  Reading
\* .pois of a missing entry throws a TypeError.
poiThen(g, key, pois) ==
    IF key \in DOMAIN g.coastline.chunks
    THEN [g |-> [g EXCEPT !.coastline.chunks[key].pois =
                    [i \in DOMAIN pois |->
                        [x |-> pois[i].x, y |-> pois[i].y, name |-> pois[i].name,
                         zoomBox |-> pois[i].zoomBox, renderer |-> << >>]]],
          threw |-> FALSE]
    ELSE [g |-> g, threw |-> TRUE]

\* loadPois, the callback of .catch: lines 250-252.  It logs and returns, so
\* the promise it settles is fulfilled.
poiCatchRethrows(g) == [g EXCEPT !.unhandled = TRUE]

poiCatch(g) == g

poiCatchDeletes(g, key) ==
    [g EXCEPT !.coastline.chunks = Restrict(@, DOMAIN @ \ {key})]

\* The chain of loadPois when the request fails or answers with an error
\* status: only the .catch callback runs.
poiRejected(g, key) == poiCatch(g)

\* The chain of loadPois when the request succeeds and the body parses.
poiResolved(g, key, pois) ==
    LET r == poiThen(g, key, pois)
    IN  IF r.threw THEN poiCatch(r.g) ELSE r.g

(***************************************************************************)
(* Boat movement and the game loop                                         *)
(***************************************************************************)
\* The position update of updatePhysics (lines 732-733), with the
\* displacement of the tick given in moves of Step.
updatePhysics(g, dx, dy) ==
    [g EXCEPT !.boat.x = @ + dx * Step, !.boat.y = @ + dy * Step]

StartX == (BoatStartX * chunkPixelSize) \div chunkSize
StartY == (BoatStartY * chunkPixelSize) \div chunkSize

InBox(b) ==
    /\ b.x >= StartX
    /\ b.x <= StartX + MaxDrift * Step
    /\ b.y >= StartY
    /\ b.y <= StartY + MaxDrift * Step

WithinCaps(g) ==
    /\ \A f \in BagToSet(g.pending.assets) : CopiesIn(f, g.pending.assets) <= MaxInFlight
    /\ \A f \in BagToSet(g.pending.pois) : CopiesIn(f, g.pending.pois) <= MaxInFlight
    /\ \A id \in BagToSet(g.coastlineContainer.buttons) :
            CopiesIn(id, g.coastlineContainer.buttons) <= MaxButtons

(***************************************************************************)
(* Numbers of the boat, the wind and the clock                             *)
(*                                                                         *)
(* Angles of the wind and of the boat's heading count steps of the wind's  *)
(* changeRate (0.0005 rad), so changeRate is 1 and targetThreshold (0.01)  *)
(* is 20; pi is 6283 of these steps.  Rudder and sail angles are whole     *)
(* degrees.  Speeds count thousandths of a knot and sailHeight counts      *)
(* tenths.  Times are milliseconds.  A product with a fraction (0.95,      *)
(* 0.98) is rounded toward zero to the unit.                               *)
(***************************************************************************)
changeRate == 1
targetThreshold == 20
Pi == 6283
TwoPi == 2 * Pi
windSpeed == 3
maxSpeed == 15000
rowingForce == 50
maxForwardsRowSpeed == 600
maxBackwardsRowSpeed == -200
SHORT_PRESS_DURATION == 1000
SAIL_THRESHOLD == 5
SailUp == 10
Undefined == -1

\* Math.random() returns a multiple of 1/RandScale: one of RandSteps evenly
\* spaced values from 0 on, or the largest value below 1.
RandScale == 10000
RandSteps == 4
Randoms == {k * (RandScale \div RandSteps) : k \in 0..(RandSteps - 1)} \cup {RandScale - 1}

\* The clock advances in steps of Quantum, at most MaxQuanta times.
Quantum == 500
MaxQuanta == 5

Sign(n) == IF n > 0 THEN 1 ELSE IF n < 0 THEN -1 ELSE 0

Min(a, b) == IF a <= b THEN a ELSE b

Max(a, b) == IF a >= b THEN a ELSE b

\* The % of JavaScript: the remainder has the sign of the dividend.
JsMod(a, n) == IF a >= 0 THEN a % n ELSE -((-a) % n)

\* Rounding toward zero of a / b, b positive.
TruncDiv(a, b) == IF a >= 0 THEN a \div b ELSE -((-a) \div b)

(***************************************************************************)
(* The wind                                                                *)
(***************************************************************************)
\* generateWindTargetAngle, for the value rand that Math.random() returned.
generateWindTargetAngle(rand) ==
    LET centered2 == 2 * rand - RandScale                \* (rand - 0.5) * 2
        mag == Abs(centered2)
        cube == (((mag * mag) \div RandScale) * mag) \div RandScale
        angle == Sign(centered2) * ((cube * Pi) \div (2 * RandScale))
    IN  JsMod(angle + TwoPi, TwoPi)

\* The wind of the constructor, for the two values Math.random() returned.
newWind(rand1, rand2) ==
    [ angle |-> (rand1 * TwoPi) \div RandScale,
      targetAngle |-> generateWindTargetAngle(rand2) ]

\* updateWind, lines 687-688.
angleDiff(w) == JsMod((w.targetAngle - w.angle) + Pi, TwoPi) - Pi

\* A test that never lets the angle move.
shouldMoveNever(diff) == FALSE

\* updateWind, the test of line 690.
shouldMove(diff) == Abs(diff) > targetThreshold

\* A step that leaves the angle where it is.
windStepStill(diff) == 0

\* updateWind, the step of line 691.
windStep(diff) == Sign(diff) * changeRate

\* An angle left as it is.
normalizeAngleNone(a) == a

\* updateWind, line 696.
normalizeAngle(a) == JsMod(JsMod(a, TwoPi) + TwoPi, TwoPi)

\* updateWind, for the value rand that Math.random() returns if called.
updateWind(w, rand) ==
    LET diff == angleDiff(w)
        w1 == IF shouldMove(diff)
              THEN [w EXCEPT !.angle = @ + windStep(diff)]
              ELSE [w EXCEPT !.targetAngle = generateWindTargetAngle(rand)]
    IN  [w1 EXCEPT !.angle = normalizeAngle(@)]

(***************************************************************************)
(* Controls                                                                *)
(***************************************************************************)
KeyNames == {"a", "d", "w", "s", "q"}
ButtonNames == {"forward", "sail"}
MouseNames == {"left", "right"}

\* The on-screen controls of setupMobileControls: action type and key.
MobileControls ==
    { <<"key", "a">>, <<"key", "d">>, <<"mouse", "left">>, <<"mouse", "right">>,
      <<"button", "forward">>, <<"button", "sail">> }

\* The boat of the constructor.
NewBoat ==
    [ x |-> StartX, y |-> StartY,
      angle |-> 0, speed |-> 0, rudderAngle |-> 0, sailAngle |-> 0, sailHeight |-> 0 ]

\* The state updateControls and updatePhysics read and write.
ThisInput ==
    [ boat |-> boat, keys |-> keys, keyPressTime |-> keyPressTime,
      mouseDown |-> mouseDown, buttonPressTime |-> buttonPressTime,
      isPanelOpen |-> isPanelOpen ]

\* applyRowingForce
applyRowingForce(c, forwards) ==
    IF forwards
    THEN [c EXCEPT !.boat.speed = Min(maxForwardsRowSpeed, @ + rowingForce)]
    ELSE [c EXCEPT !.boat.speed = Max(maxBackwardsRowSpeed, @ - rowingForce)]

\* A rudder step to port with no limit.
rudderLeftUnclamped(r) == r - 2

\* updateControls, line 605.
rudderLeft(r) == Max(-30, r - 2)

\* updateControls, line 607.
rudderRight(r) == Min(30, r + 2)

\* A rudder that returns to the centre by the step of the keys.
rudderDecayLinear(r) == r - 2 * Sign(r)

\* updateControls, line 609.
rudderDecay(r) == TruncDiv(r * 95, 100)

\* A toggle that moves the sail half way.
toggleSailHalf(h) == IF h > SAIL_THRESHOLD THEN h - SAIL_THRESHOLD ELSE h + SAIL_THRESHOLD

\* updateControls, lines 627-631 and 639-643.
toggleSail(h) == IF h > SAIL_THRESHOLD THEN 0 ELSE SailUp

\* A firing toggle that leaves the press time where it was.
keepPressTime(pressed, t) == pressed

\* updateControls, lines 632 and 644: the press time after the toggle fired.
resetPressTime(pressed, t) == t

\* updateControls, lines 618, 625 and 637.
pressDuration(pressed, t) == IF pressed # Undefined THEN t - pressed ELSE 0

\* updateControls, lines 604-610.
steerControls(c) ==
    IF c.keys["a"] THEN [c EXCEPT !.boat.rudderAngle = rudderLeft(@)]
    ELSE IF c.keys["d"] THEN [c EXCEPT !.boat.rudderAngle = rudderRight(@)]
    ELSE [c EXCEPT !.boat.rudderAngle = rudderDecay(@)]

\* updateControls, lines 612-614.
rowForwardKey(c) == IF c.keys["w"] THEN applyRowingForce(c, TRUE) ELSE c

\* updateControls, lines 616-622.
rowBackwardKey(c, t) ==
    IF c.keys["s"]
    THEN LET c1 == applyRowingForce(c, FALSE)
         IN  IF pressDuration(c.keyPressTime["s"], t) >= SHORT_PRESS_DURATION
             THEN [c1 EXCEPT !.boat.sailHeight = 0]
             ELSE c1
    ELSE c

\* updateControls, lines 624-634.
sailKey(c, t) ==
    IF c.keys["q"] /\ pressDuration(c.keyPressTime["q"], t) >= SHORT_PRESS_DURATION
    THEN [c EXCEPT !.boat.sailHeight = toggleSail(@),
                   !.keyPressTime["q"] = resetPressTime(@, t)]
    ELSE c

\* updateControls, lines 636-646.
sailButton(c, t) ==
    IF c.buttonPressTime["sail"] # Undefined
       /\ t - c.buttonPressTime["sail"] >= SHORT_PRESS_DURATION
    THEN [c EXCEPT !.boat.sailHeight = toggleSail(@),
                   !.buttonPressTime["sail"] = resetPressTime(@, t)]
    ELSE c

\* updateControls, lines 648-650.
forwardButton(c) ==
    IF c.buttonPressTime["forward"] # Undefined THEN applyRowingForce(c, TRUE) ELSE c

\* updateControls, lines 652-657.
trimControls(c) ==
    LET c1 == IF c.mouseDown["left"]
              THEN [c EXCEPT !.boat.sailAngle = Max(-180, @ - 2)] ELSE c
    IN  IF c1.mouseDown["right"]
        THEN [c1 EXCEPT !.boat.sailAngle = Min(0, @ + 2)] ELSE c1

\* updateControls, with t the value of Date.now().
updateControls(c, t) ==
    IF c.isPanelOpen THEN c
    ELSE trimControls(
            forwardButton(
                sailButton(
                    sailKey(
                        rowBackwardKey(rowForwardKey(steerControls(c)), t),
                        t),
                    t)))

(***************************************************************************)
(* Physics of the boat's speed and heading                                 *)
(***************************************************************************)
\* Math.sin of x degrees, 0 <= x <= 180, times 1000 (Bhaskara's formula,
\* exact at 0, 30, 90, 150 and 180 degrees, within 2 of 1000 elsewhere).
sin1000(x) == (4000 * x * (180 - x)) \div (40500 - x * (180 - x))

\* Math.cos of an angle in degrees, times 1000.
cos1000(deg) ==
    LET d == deg % 360
        e == IF d > 180 THEN 360 - d ELSE d
    IN  IF e <= 90 THEN sin1000(90 - e) ELSE -sin1000(e - 90)

\* An angle in steps of changeRate, in whole degrees.
toDegrees(a) == TruncDiv(a * 180, Pi)

\* updatePhysics, lines 713-716.
relativeWindAngle(windAngle, boatAngle) ==
    LET r == windAngle - boatAngle
    IN  IF r > Pi THEN r - TwoPi ELSE IF r < -Pi THEN r + TwoPi ELSE r

\* updatePhysics, lines 707 and 718, times 1000000.
sailEfficiency(b, w) ==
    LET rel == toDegrees(relativeWindAngle(w.angle, b.angle))
    IN  Abs(cos1000(rel - b.sailAngle)) * (cos1000(rel) + 500)

\* updatePhysics, lines 720 and 722: force * 0.05, in thousandths.
\* wind.speed * 0.3 * 0.05 is 0.045, sailHeight counts tenths.
forceStep(b, w) == TruncDiv((sailEfficiency(b, w) \div 1000) * windSpeed * 15 * b.sailHeight, 10000)

\* A hull without drag.
dragNone(speed) == speed

\* updatePhysics, line 723.
drag(speed) == TruncDiv(speed * 98, 100)

\* The wind's push per tick when it blows from dead astern on a raised,
\* untrimmed sail.
AsternStep == forceStep([NewBoat EXCEPT !.sailHeight = SailUp], [angle |-> 0])

\* The speed at which drag(speed + AsternStep) = speed in exact arithmetic:
\* 0.98 * AsternStep / (1 - 0.98).
SailEquilibrium == 49 * AsternStep

\* Rounding one thousandth per tick moves the fixed point by at most
\* 1 / (1 - 0.98) thousandths.
DragResolution == 50

\* updatePhysics, lines 701-727: the speed and the heading.
updatePhysicsSpeed(c, w) ==
    IF c.isPanelOpen THEN c
    ELSE LET speed == Min(maxSpeed, drag(c.boat.speed + forceStep(c.boat, w)))
             \* (rudderAngle / 30) * 0.02 * speed, in steps of changeRate
             turnRate == TruncDiv(c.boat.rudderAngle * speed, 750)
         IN  [c EXCEPT !.boat.speed = speed, !.boat.angle = @ + turnRate]

(***************************************************************************)
(* The state machine                                                       *)
(***************************************************************************)
CommitCache(g) ==
    /\ boat' = g.boat
    /\ coastline' = g.coastline
    /\ pending' = g.pending
    /\ coastlineContainer' = g.coastlineContainer
    /\ unhandled' = g.unhandled
    /\ UNCHANGED <<inputVars, windVars, panelVars>>

Commit(g) == CommitCache(g) /\ UNCHANGED stale

\* lastOp: the kind of step, the chunk key a callback was for, and whether
\* that key had a resident entry when the callback ran.
Op(op, key) == [op |-> op, key |-> key, resident |-> key \in DOMAIN coastline.chunks]

\* lastPass: whether the latest pass got past the manifest test, the keys
\* it created and evicted, the keys the pass before it evicted, and the keys
\* it created that the step just before it had removed on a failed fetch.
NoPass == [ran |-> FALSE, created |-> {}, evicted |-> {}, prevEvicted |-> {}, retried |-> {}]

\* lastWind: what the latest updateWind() did ("moved" or "drew"), the
\* angle it started from, and whether that angle was exactly the target.
NoWind == [op |-> "init", angle |-> 0, exact |-> FALSE]

\* lastInput: the kind of input event or frame, the control it was for,
\* whether that control had a press time before the event, and whether a
\* frame changed sailHeight.
NoInput == [kind |-> "init", type |-> "", key |-> "", had |-> FALSE, flipped |-> FALSE]

\* The controls of the constructor: nothing is down, no press time exists.
InputsIdle ==
    /\ keys = [k \in KeyNames |-> FALSE]
    /\ keyPressTime = [k \in KeyNames |-> Undefined]
    /\ mouseDown = [b \in MouseNames |-> FALSE]
    /\ buttonPressTime = [b \in ButtonNames |-> Undefined]
    /\ isPanelOpen = FALSE
    /\ now = 0
    /\ lastInput = NoInput

\* The panel of init (lines 121-122) and the clock of the constructor
\* (line 64): no POI chosen, no tween started, no frame run.
PanelIdle ==
    /\ currentPoi = NoKey
    /\ tweens = << >>
    /\ time = 0

\* The streaming cache of the constructor: nothing resident, both manifest
\* requests on their way.
CacheIdle ==
    /\ coastline =
        [ chunks |-> EmptyMap, chunkIndex |-> << >>, poiIndex |-> << >>,
          indexLoaded |-> FALSE, poiIndexLoaded |-> FALSE, graphics |-> {} ]
    /\ pending =
        [ chunkIndex |-> "pending", poiIndex |-> "pending",
          assets |-> EmptyBag, pois |-> EmptyBag ]
    /\ coastlineContainer = [chunks |-> {}, buttons |-> EmptyBag]
    /\ unhandled = FALSE
    /\ stale = EmptyBag
    /\ lastOp = Op("init", NoKey)
    /\ lastPass = NoPass

Init ==
    /\ boat = NewBoat
    /\ CacheIdle
    /\ wind = newWind(0, 0)
    /\ InputsIdle
    /\ PanelIdle
    /\ lastWind = NoWind

\* loadChunkIndex: the response arrived and every line parsed.
ChunkIndexLoaded ==
    /\ pending.chunkIndex = "pending"
    /\ Commit([This EXCEPT !.pending.chunkIndex = "loaded",
                           !.coastline.chunkIndex = ChunkManifest,
                           !.coastline.indexLoaded = TRUE])
    /\ lastOp' = Op("chunkIndexLoaded", NoKey)
    /\ UNCHANGED lastPass

\* A .catch callback of loadChunkIndex that marks the manifest as loaded.
chunkIndexCatchActivates(g) == [g EXCEPT !.coastline.indexLoaded = TRUE]

\* loadChunkIndex, the .catch callback: logs, changes nothing.
chunkIndexCatch(g) == g

\* loadChunkIndex: the request failed, the status was an error, or a line
\* did not parse; the .catch callback runs.
ChunkIndexFailed ==
    /\ pending.chunkIndex = "pending"
    /\ Commit(chunkIndexCatch([This EXCEPT !.pending.chunkIndex = "failed"]))
    /\ lastOp' = Op("chunkIndexFailed", NoKey)
    /\ UNCHANGED lastPass

\* loadPoiIndex: the response arrived and every line parsed.
PoiIndexLoaded ==
    /\ pending.poiIndex = "pending"
    /\ Commit([This EXCEPT !.pending.poiIndex = "loaded",
                           !.coastline.poiIndex = PoiManifest,
                           !.coastline.poiIndexLoaded = TRUE])
    /\ lastOp' = Op("poiIndexLoaded", NoKey)
    /\ UNCHANGED lastPass

\* loadPoiIndex: the request failed or a line did not parse.
PoiIndexFailed ==
    /\ pending.poiIndex = "pending"
    /\ Commit([This EXCEPT !.pending.poiIndex = "failed"])
    /\ lastOp' = Op("poiIndexFailed", NoKey)
    /\ UNCHANGED lastPass

\* PIXI.Assets.load resolved.
AssetLoaded ==
    \E f \in BagToSet(pending.assets) :
        /\ Commit(assetThen([This EXCEPT !.pending.assets = @ (-) SetToBag({f})], f.key, f.fileName))
        /\ lastOp' = Op("assetLoaded", f.key)
        /\ UNCHANGED lastPass

\* PIXI.Assets.load rejected.
AssetFailed ==
    \E f \in BagToSet(pending.assets) :
        /\ Commit(assetCatch([This EXCEPT !.pending.assets = @ (-) SetToBag({f})], f.key))
        /\ lastOp' = Op("assetFailed", f.key)
        /\ UNCHANGED lastPass

\* fetch of a POI file resolved with a good status and a body that parses.
PoisFetched ==
    \E f \in BagToSet(pending.pois) :
        /\ Commit(poiResolved([This EXCEPT !.pending.pois = @ (-) SetToBag({f})], f.key, PoiFile(f.fileName)))
        /\ lastOp' = Op("poisFetched", f.key)
        /\ UNCHANGED lastPass

\* fetch of a POI file rejected, answered with an error status, or its
\* body did not parse.
PoisFailed ==
    \E f \in BagToSet(pending.pois) :
        /\ Commit(poiRejected([This EXCEPT !.pending.pois = @ (-) SetToBag({f})], f.key))
        /\ lastOp' = Op("poisFailed", f.key)
        /\ UNCHANGED lastPass

\* One call of gameLoop: physics, chunk reconciliation, drawing.
Tick ==
    \E dx \in {-1, 0, 1}, dy \in {-1, 0, 1} :
        LET g0 == updatePhysics(This, dx, dy)
            pass == updateChunksPass(g0)
            g2 == drawCoastline(pass.result)
        IN  /\ InBox(g0.boat)
            /\ WithinCaps(g2)
            /\ Commit(g2)
            /\ lastOp' = Op("tick", NoKey)
            /\ lastPass' =
                [ran |-> pass.ran, created |-> pass.created, evicted |-> pass.evicted,
                 prevEvicted |-> lastPass.evicted,
                 retried |-> IF lastOp.op = "assetFailed" /\ lastOp.resident
                             THEN pass.created \cap {lastOp.key} ELSE {}]

Next ==
    \/ ChunkIndexLoaded
    \/ ChunkIndexFailed
    \/ PoiIndexLoaded
    \/ PoiIndexFailed
    \/ AssetLoaded
    \/ AssetFailed
    \/ PoisFetched
    \/ PoisFailed
    \/ Tick

Spec == Init /\ [][Next]_vars

(***************************************************************************)
(* Input events, the clock and the frame's control, wind and physics steps *)
(***************************************************************************)
CommitInput(c) ==
    /\ boat' = c.boat
    /\ keys' = c.keys
    /\ keyPressTime' = c.keyPressTime
    /\ mouseDown' = c.mouseDown
    /\ buttonPressTime' = c.buttonPressTime
    /\ isPanelOpen' = c.isPanelOpen
    /\ UNCHANGED <<now, cacheVars, windVars, panelVars, stale>>

HasPressTime(type, key) ==
    IF type = "key" THEN keyPressTime[key] # Undefined
    ELSE IF type = "button" THEN buttonPressTime[key] # Undefined
    ELSE FALSE

Input(kind, type, key) ==
    [kind |-> kind, type |-> type, key |-> key, had |-> HasPressTime(type, key), flipped |-> FALSE]

\* setupMobileControls, startAction (lines 326-336).
startAction(c, type, key, t) ==
    IF type = "key" THEN [c EXCEPT !.keys[key] = TRUE, !.keyPressTime[key] = t]
    ELSE IF type = "mouse" THEN [c EXCEPT !.mouseDown[key] = TRUE]
    ELSE [c EXCEPT !.buttonPressTime[key] = t]

\* setupMobileControls, stopAction (lines 338-348) and leaveAction (350-359).
stopAction(c, type, key) ==
    IF type = "key" THEN [c EXCEPT !.keys[key] = FALSE, !.keyPressTime[key] = Undefined]
    ELSE IF type = "mouse" THEN [c EXCEPT !.mouseDown[key] = FALSE]
    ELSE [c EXCEPT !.buttonPressTime[key] = Undefined]

\* setupControls, the keydown listener (lines 289-295); key auto-repeat
\* delivers it again while the key stays down.
keydown(c, key, t) ==
    IF ~c.keys[key]
    THEN [c EXCEPT !.keys[key] = TRUE, !.keyPressTime[key] = t]
    ELSE c

\* setupControls, the keyup listener (lines 297-301).
keyup(c, key) == [c EXCEPT !.keys[key] = FALSE, !.keyPressTime[key] = Undefined]

KeyDown(key) ==
    /\ CommitInput(keydown(ThisInput, key, now))
    /\ lastInput' = Input("keydown", "key", key)

\* A key is released only while it is down.
KeyUp(key) ==
    /\ keys[key]
    /\ CommitInput(keyup(ThisInput, key))
    /\ lastInput' = Input("keyup", "key", key)

\* setupControls, the canvas mousedown listener (lines 303-307).
MouseDown(button) ==
    /\ CommitInput([ThisInput EXCEPT !.mouseDown[button] = TRUE])
    /\ lastInput' = Input("mousedown", "mouse", button)

\* setupControls, the canvas mouseup listener (lines 309-312).
MouseUp(button) ==
    /\ mouseDown[button]
    /\ CommitInput([ThisInput EXCEPT !.mouseDown[button] = FALSE])
    /\ lastInput' = Input("mouseup", "mouse", button)

\* touchstart or mousedown on an on-screen control; a second finger, or a
\* mouse next to a touch, delivers it again before any release.
StartAction(type, key) ==
    /\ CommitInput(startAction(ThisInput, type, key, now))
    /\ lastInput' = Input("start", type, key)

\* touchend, touchcancel or mouseup on an on-screen control that is pressed.
StopAction(type, key) ==
    /\ HasPressTime(type, key) \/ (type = "mouse" /\ mouseDown[key])
    /\ CommitInput(stopAction(ThisInput, type, key))
    /\ lastInput' = Input("stop", type, key)

\* mouseleave on an on-screen control, pressed or not.
LeaveAction(type, key) ==
    /\ CommitInput(stopAction(ThisInput, type, key))
    /\ lastInput' = Input("leave", type, key)

\* Time passes between two events.
TimePasses ==
    /\ now < MaxQuanta * Quantum
    /\ now' = now + Quantum
    /\ lastInput' = Input("time", "", "")
    /\ UNCHANGED <<boat, keys, keyPressTime, mouseDown, buttonPressTime, isPanelOpen,
                   cacheVars, windVars, panelVars, stale>>

FrameInput(c) ==
    [kind |-> "frame", type |-> "", key |-> "", had |-> FALSE,
     flipped |-> c.boat.sailHeight # boat.sailHeight]

\* gameLoop, line 837: updateControls.
ControlsFrame ==
    LET c == updateControls(ThisInput, now)
    IN  /\ CommitInput(c)
        /\ lastInput' = FrameInput(c)

\* gameLoop, lines 837 and 839: updateControls, then updatePhysics for the
\* speed and the heading.  The wind turns one step of changeRate per frame,
\* less than the resolution of the cosines, and is left where it is.
PhysicsFrame ==
    LET c == updatePhysicsSpeed(updateControls(ThisInput, now), wind)
    IN  /\ CommitInput(c)
        /\ lastInput' = FrameInput(c)

\* gameLoop, line 838: updateWind.
WindFrame ==
    \E rand \in Randoms :
        /\ wind' = updateWind(wind, rand)
        /\ lastWind' = [op |-> IF shouldMove(angleDiff(wind)) THEN "moved" ELSE "drew",
                        angle |-> wind.angle,
                        exact |-> wind.angle = wind.targetAngle]
        /\ UNCHANGED <<boat, keys, keyPressTime, mouseDown, buttonPressTime, isPanelOpen,
                       now, lastInput, cacheVars, panelVars, stale>>

(***************************************************************************)
(* The whole game loop, the POI panel and the camera tweens                *)
(***************************************************************************)
\* Everything gameLoop and the panel's handlers read and write.
ThisGame ==
    [ boat |-> boat, coastline |-> coastline, pending |-> pending,
      coastlineContainer |-> coastlineContainer, unhandled |-> unhandled,
      wind |-> wind, keys |-> keys, keyPressTime |-> keyPressTime,
      mouseDown |-> mouseDown, buttonPressTime |-> buttonPressTime,
      isPanelOpen |-> isPanelOpen, currentPoi |-> currentPoi,
      tweens |-> tweens, time |-> time ]

CommitGame(s) ==
    /\ boat' = s.boat
    /\ coastline' = s.coastline
    /\ pending' = s.pending
    /\ coastlineContainer' = s.coastlineContainer
    /\ unhandled' = s.unhandled
    /\ wind' = s.wind
    /\ keys' = s.keys
    /\ keyPressTime' = s.keyPressTime
    /\ mouseDown' = s.mouseDown
    /\ buttonPressTime' = s.buttonPressTime
    /\ isPanelOpen' = s.isPanelOpen
    /\ currentPoi' = s.currentPoi
    /\ tweens' = s.tweens
    /\ time' = s.time
    /\ UNCHANGED <<now, stale>>

\* Math.sin of an angle in degrees, times 1000.
sinDeg1000(deg) == cos1000(deg - 90)

\* updatePhysics, lines 729-733, in whole pixels.  The pull of the waves
\* (waveSpeed) is between -0.105 and 0.285 pixel per tick, below that
\* resolution, and is left out.
moveBoat(c) ==
    LET deg == toDegrees(c.boat.angle)
    IN  [c EXCEPT !.boat.x = @ + TruncDiv(cos1000(deg) * c.boat.speed, 1000000),
                  !.boat.y = @ + TruncDiv(sinDeg1000(deg) * c.boat.speed, 1000000)]

\* updatePhysics without the test of lines 701-703 in front of the move.
updatePhysicsTickUnpaused(c) == moveBoat(updatePhysicsSpeed(c, c.wind))

\* updatePhysics, lines 699-734: the speed, the heading and the position,
\* under the wind of the same state.
updatePhysicsTick(c) ==
    IF c.isPanelOpen THEN c
    ELSE moveBoat(updatePhysicsSpeed(c, c.wind))

\* gameLoop with updatePhysics called first and updateChunks last.
gameLoopReordered(s, t, rand) ==
    LET s1 == updatePhysicsTick(s)
        s2 == updateControls(s1, t)
        s3 == [s2 EXCEPT !.wind = updateWind(@, rand)]
        s4 == drawCoastline(s3)
        pass == updateChunksPass(s4)
    IN  [controls |-> s2, wind |-> s3, physics |-> s1, pass |-> pass,
         draw |-> [pass.result EXCEPT !.time = @ + 1]]

\* gameLoop with every step of the frame skipped while the panel is open.
gameLoopPausedWhole(s, t, rand) ==
    LET s1 == updateControls(s, t)
        s2 == [s1 EXCEPT !.wind = updateWind(@, rand)]
        s3 == updatePhysicsTick(s2)
        pass == updateChunksPass(s3)
        s5 == drawCoastline(pass.result)
        idle == [ran |-> FALSE, created |-> {}, evicted |-> {}, result |-> s]
    IN  IF s.isPanelOpen
        THEN [controls |-> s, wind |-> s, physics |-> s, pass |-> idle,
              draw |-> [s EXCEPT !.time = @ + 1]]
        ELSE [controls |-> s1, wind |-> s2, physics |-> s3, pass |-> pass,
              draw |-> [s5 EXCEPT !.time = @ + 1]]

\* gameLoop, lines 837-852: the state each step returns in, the pass of
\* updateChunks with what it did, and the state the frame ends in.
gameLoop(s, t, rand) ==
    LET s1 == updateControls(s, t)
        s2 == [s1 EXCEPT !.wind = updateWind(@, rand)]
        s3 == updatePhysicsTick(s2)
        pass == updateChunksPass(s3)
        s5 == drawCoastline(pass.result)
    IN  [controls |-> s1, wind |-> s2, physics |-> s3, pass |-> pass,
         draw |-> [s5 EXCEPT !.time = @ + 1]]

\* A POI is named by the key of its chunk and its place in chunk.pois.
\* The button of a POI, in a one-element tuple, or the empty tuple when the
\* POI is not in a resident chunk or has no button.
buttonOf(s, id) ==
    IF id # NoKey /\ id[1] \in DOMAIN s.coastline.chunks
       /\ id[2] \in DOMAIN s.coastline.chunks[id[1]].pois
    THEN s.coastline.chunks[id[1]].pois[id[2]].renderer
    ELSE << >>

withButton(s, id, button) ==
    [s EXCEPT !.coastline.chunks[id[1]].pois[id[2]].renderer = <<button>>]

\* Tweens of one duration complete in the order they were started: the
\* pending tweens are a queue, each with the view it moves the camera to
\* and the POI whose button its onComplete callback hides, or NoKey when
\* it has no callback.  The size of the canvas is not part of the program,
\* so a view is kept as the terms the code computes it from.
\* The view the constructor gives globalTransform, lines 9-13.
OriginalView == [scale |-> "1", x |-> "width / 2", y |-> "height / 2"]

\* The view that fits the zoomBox into the canvas, lines 405-426.
BoxView == [scale |-> "min(scaleX, scaleY)", x |-> "centerX", y |-> "centerY"]

\* globalZoom, lines 434-447.
globalZoom(s, view, onComplete) ==
    [s EXCEPT !.tweens = Append(@, [to |-> view, onComplete |-> onComplete])]

\* zoomToPoiBox with the guard of lines 400-402 left out.
zoomToPoiBoxUnguarded(s, id) == globalZoom(s, BoxView, id)

\* zoomToPoiBox, lines 399-432.
zoomToPoiBox(s, id) ==
    IF Len(s.coastline.chunks[id[1]].pois[id[2]].zoomBox) # 4 THEN s
    ELSE globalZoom(s, BoxView, id)

\* restoreOriginalZoom, lines 449-451.
restoreOriginalZoom(s) == globalZoom(s, OriginalView, NoKey)

\* openPoiPanel, lines 453-460; the page has the textPanel element.
openPoiPanel(s, id) == [s EXCEPT !.currentPoi = id, !.isPanelOpen = TRUE]

\* The onClickCallback createPoiButton gives the button: lines 387-390.
onClickCallback(s, id) == openPoiPanel(zoomToPoiBox(s, id), id)

\* The pointerdown listener of the button, part_003 lines 93-97.
pointerdown(s, id) ==
    IF ~buttonOf(s, id)[1].isInteractive THEN s
    ELSE onClickCallback(s, id)

\* toggleTextPanel, lines 462-475.
toggleTextPanel(s) ==
    LET s1 == [s EXCEPT !.isPanelOpen = ~@]
        s2 == restoreOriginalZoom(s1)
    IN  IF s1.isPanelOpen THEN s1
        ELSE IF buttonOf(s2, s2.currentPoi) # << >>
             THEN withButton(s2, s2.currentPoi, show(buttonOf(s2, s2.currentPoi)[1]))
             ELSE s2

\* The click listener of the close button, lines 585-589.
closeClick(s) == IF s.isPanelOpen THEN toggleTextPanel(s) ELSE s

\* The first tween of the queue completes; the callback of line 430 hides
\* the button it was started for.
tweenComplete(s) ==
    LET tween == Head(s.tweens)
        s1 == [s EXCEPT !.tweens = Tail(@)]
    IN  IF tween.onComplete # NoKey /\ buttonOf(s1, tween.onComplete) # << >>
        THEN withButton(s1, tween.onComplete, hide(buttonOf(s1, tween.onComplete)[1]))
        ELSE s1

\* The POIs the pointer can press: PIXI delivers pointer events to a
\* graphic that is visible and whose eventMode is not "none".
Pressable(s) ==
    { id \in UNION { { <<key, i>> : i \in DOMAIN s.coastline.chunks[key].pois } :
                        key \in DOMAIN s.coastline.chunks } :
        /\ buttonOf(s, id) # << >>
        /\ buttonOf(s, id)[1].visible
        /\ buttonOf(s, id)[1].eventMode # "none" }

\* Most tweens pending at once.
MaxTweens == 2
\* Most calls of gameLoop after the initial state.
MaxTicks == 3

\* The player presses a POI button.
PoiClick ==
    \E id \in Pressable(ThisGame) :
        LET s == pointerdown(ThisGame, id)
        IN  /\ Len(s.tweens) <= MaxTweens
            /\ CommitGame(s)
            /\ lastOp' = Op("poiClick", id[1])
            /\ lastInput' = Input("click", "poi", "")
            /\ UNCHANGED <<lastPass, lastWind>>

\* The player presses the close button of the panel.
CloseClick ==
    LET s == closeClick(ThisGame)
    IN  /\ Len(s.tweens) <= MaxTweens
        /\ CommitGame(s)
        /\ lastOp' = Op("closeClick", NoKey)
        /\ lastInput' = Input("click", "close", "")
        /\ UNCHANGED <<lastPass, lastWind>>

\* gsap completes the tween that was started first.
TweenCompleted ==
    /\ tweens # << >>
    /\ CommitGame(tweenComplete(ThisGame))
    /\ lastOp' = Op("tweenCompleted", NoKey)
    /\ lastInput' = Input("tween", "", "")
    /\ UNCHANGED <<lastPass, lastWind>>

\* One call of gameLoop, whole.  updateWind calls Math.random() only when
\* it draws a new target.
GameLoop ==
    \E rand \in IF shouldMove(angleDiff(wind)) THEN {0} ELSE Randoms :
        LET f == gameLoop(ThisGame, now, rand)
        IN  /\ time < MaxTicks
            /\ WithinCaps(f.draw)
            /\ CommitGame(f.draw)
            /\ lastOp' = Op("tick", NoKey)
            /\ lastPass' =
                [ran |-> f.pass.ran, created |-> f.pass.created, evicted |-> f.pass.evicted,
                 prevEvicted |-> lastPass.evicted, retried |-> {}]
            /\ lastWind' = [op |-> IF shouldMove(angleDiff(wind)) THEN "moved" ELSE "drew",
                            angle |-> wind.angle,
                            exact |-> wind.angle = wind.targetAngle]
            /\ lastInput' = FrameInput(f.draw)

(***************************************************************************)
(* The harbour: the boat near the POIs of chunk (4.5, 60.5), or at the     *)
(* chunk boundary east of which that chunk is evicted, some time into a    *)
(* game; the chunk's texture and POI file have arrived and the next frame  *)
(* draws them.  The port rudder key, the POI buttons, the close button,    *)
(* tweens and whole calls of gameLoop.                                     *)
(***************************************************************************)
HarbourKey == getChunkKey(45, 605)
HarbourFile == "pois_45_605.json"

\* The world position of the POIs (lines 779-780).
HarbourX == (PoiFile(HarbourFile)[1].x * chunkPixelSize) \div chunkSize
HarbourY == ((-PoiFile(HarbourFile)[1].y) * chunkPixelSize) \div chunkSize

\* The boat running east before the wind at the speed it settles at.
Sailing(x, y) ==
    [NewBoat EXCEPT !.x = x, !.y = y, !.speed = SailEquilibrium, !.sailHeight = SailUp]

\* The boat at rest, the sail just raised and trimmed to -60 degrees.
Moored(x, y) ==
    [NewBoat EXCEPT !.x = x, !.y = y, !.sailHeight = SailUp, !.sailAngle = -60]

\* Boat and wind at the start: two frames before the boat comes within
\* poiInteractionRadius of the POIs (at 48 and 64 pixels on the two axes,
\* the radius exactly); two frames before it leaves that radius on the
\* other side; one frame before it crosses from chunk column 6.0 to 6.5,
\* four columns from the harbour chunk; and at rest within the radius, the
\* wind about to veer from 89 to 88 degrees off the bow.
HarbourStarts ==
    { [boat |-> Sailing(HarbourX - 54, HarbourY - 64), wind |-> newWind(0, RandScale - 1)],
      [boat |-> Sailing(HarbourX + 45, HarbourY + 64), wind |-> newWind(0, RandScale - 1)],
      [boat |-> Sailing(13 * chunkPixelSize - 1, HarbourY), wind |-> newWind(0, RandScale - 1)],
      [boat |-> Moored(HarbourX + 45, HarbourY + 64),
       wind |-> [newWind(0, RandScale \div 2) EXCEPT !.angle = 3108]] }

HarbourInit ==
    /\ \E start \in HarbourStarts : boat = start.boat /\ wind = start.wind
    /\ coastline =
        [ chunks |->
            (HarbourKey :>
                [x |-> HarbourKey[1], y |-> HarbourKey[2],
                 texture |-> "chunk_45_605.png", loaded |-> TRUE,
                 pois |-> poiThen([coastline |-> [chunks |-> (HarbourKey :> [pois |-> << >>])]],
                                  HarbourKey, PoiFile(HarbourFile)).g.coastline.chunks[HarbourKey].pois]),
          chunkIndex |-> ChunkManifest, poiIndex |-> PoiManifest,
          indexLoaded |-> TRUE, poiIndexLoaded |-> TRUE, graphics |-> {} ]
    /\ pending =
        [ chunkIndex |-> "loaded", poiIndex |-> "loaded",
          assets |-> EmptyBag, pois |-> EmptyBag ]
    /\ coastlineContainer = [chunks |-> {}, buttons |-> EmptyBag]
    /\ unhandled = FALSE
    /\ stale = EmptyBag
    /\ lastOp = Op("init", NoKey)
    /\ lastPass = NoPass
    /\ InputsIdle
    /\ PanelIdle
    /\ lastWind = NoWind

HarbourKeys == {"a"}

HarbourNext ==
    \/ \E key \in HarbourKeys : KeyDown(key)
    \/ \E key \in HarbourKeys : KeyUp(key)
    \/ PoiClick
    \/ CloseClick
    \/ TweenCompleted
    \/ GameLoop

HarbourSpec == HarbourInit /\ [][HarbourNext]_vars

(***************************************************************************)
(* The wind on its own: every start the constructor can draw, then frames. *)
(***************************************************************************)
WindInit ==
    /\ boat = NewBoat
    /\ CacheIdle
    /\ InputsIdle
    /\ PanelIdle
    /\ \E rand1 \in Randoms, rand2 \in Randoms : wind = newWind(rand1, rand2)
    /\ lastWind = NoWind

WindNext == WindFrame

WindSpec == WindInit /\ [][WindNext]_vars

\* requestAnimationFrame keeps calling gameLoop.
WindLive == WindSpec /\ WF_vars(WindFrame)

(***************************************************************************)
(* Rudder and sail trim: the keys a and d and the two mouse buttons.       *)
(***************************************************************************)
HelmKeys == {"a", "d"}

HelmNext ==
    \/ \E key \in HelmKeys : KeyDown(key)
    \/ \E key \in HelmKeys : KeyUp(key)
    \/ \E button \in MouseNames : MouseDown(button)
    \/ \E button \in MouseNames : MouseUp(button)
    \/ ControlsFrame

HelmSpec == Init /\ [][HelmNext]_vars

(***************************************************************************)
(* Sail height and press times: the keys q and s, the on-screen sail       *)
(* button, and the clock.                                                  *)
(***************************************************************************)
SailKeys == {"q", "s"}
SailControls == { <<"button", "sail">> }

SailNext ==
    \/ \E key \in SailKeys : KeyDown(key)
    \/ \E key \in SailKeys : KeyUp(key)
    \/ \E ctl \in SailControls : StartAction(ctl[1], ctl[2])
    \/ \E ctl \in SailControls : StopAction(ctl[1], ctl[2])
    \/ \E ctl \in SailControls : LeaveAction(ctl[1], ctl[2])
    \/ TimePasses
    \/ ControlsFrame

SailSpec == Init /\ [][SailNext]_vars

(***************************************************************************)
(* Speed: rowing with w and s under every sail height, a sample of sail    *)
(* trims and every wind direction the constructor can draw.                *)
(***************************************************************************)
RowKeys == {"w", "s"}
TrimSamples == {0, -60, -180}

PhysicsInit ==
    /\ \E h \in {0, SailUp}, a \in TrimSamples :
            boat = [NewBoat EXCEPT !.sailHeight = h, !.sailAngle = a]
    /\ CacheIdle
    /\ InputsIdle
    /\ PanelIdle
    /\ \E rand \in Randoms : wind = newWind(rand, 0)
    /\ lastWind = NoWind

PhysicsNext ==
    \/ \E key \in RowKeys : KeyDown(key)
    \/ \E key \in RowKeys : KeyUp(key)
    \/ PhysicsFrame

PhysicsSpec == PhysicsInit /\ [][PhysicsNext]_vars

(***************************************************************************)
(* Chunk addressing: the boat lying still at a world position on a grid of *)
(* half chunks around the world origin, the chunk manifest loaded, and the *)
(* game loop reconciling the cache around it.                              *)
(***************************************************************************)
\* The grid reaches MaxCell half chunks from the origin on either axis.
MaxCell == 3

WorldSamples == { n * (chunkPixelSize \div 2) : n \in -MaxCell..MaxCell }

AddressInit ==
    /\ \E x \in WorldSamples, y \in WorldSamples : boat = [NewBoat EXCEPT !.x = x, !.y = y]
    /\ coastline =
        [ chunks |-> EmptyMap, chunkIndex |-> ChunkManifest, poiIndex |-> << >>,
          indexLoaded |-> TRUE, poiIndexLoaded |-> FALSE, graphics |-> {} ]
    /\ pending =
        [ chunkIndex |-> "loaded", poiIndex |-> "pending",
          assets |-> EmptyBag, pois |-> EmptyBag ]
    /\ coastlineContainer = [chunks |-> {}, buttons |-> EmptyBag]
    /\ unhandled = FALSE
    /\ stale = EmptyBag
    /\ lastOp = Op("init", NoKey)
    /\ lastPass = NoPass
    /\ wind = newWind(0, 0)
    /\ InputsIdle
    /\ PanelIdle
    /\ lastWind = NoWind

\* gameLoop, lines 840 and 844, with the boat at rest: lastOp keeps the key
\* of the chunk updateChunks found the boat in (line 258).
AddressTick ==
    LET c == getChunkCoordsFromWorldPos(boat.x, boat.y)
        pass == updateChunksPass(This)
        g2 == drawCoastline(pass.result)
    IN  /\ WithinCaps(g2)
        /\ Commit(g2)
        /\ lastOp' = Op("tick", getChunkKey(c.chunkX, c.chunkY))
        /\ lastPass' =
            [ran |-> pass.ran, created |-> pass.created, evicted |-> pass.evicted,
             prevEvicted |-> lastPass.evicted, retried |-> {}]

AddressNext ==
    \/ AddressTick
    \/ AssetLoaded
    \/ AssetFailed

AddressSpec == AddressInit /\ [][AddressNext]_vars

(***************************************************************************)
(* Vocabulary of the properties                                            *)
(***************************************************************************)
\* The chunk the boat is in.
Center == getChunkCoordsFromWorldPos(boat.x, boat.y)

\* The state is the one a pass of updateChunks that found the manifest
\* loaded has just produced.
AfterPass == lastOp.op = "tick" /\ lastPass.ran

\* Chebyshev distance, in tenths, between a coordinate and a chunk.
Chebyshev(x, y, c) ==
    IF Abs(x - c.chunkX) >= Abs(y - c.chunkY) THEN Abs(x - c.chunkX) ELSE Abs(y - c.chunkY)

HasRecord(index, x, y) == \E i \in 1..Len(index) : index[i].x = x /\ index[i].y = y

\* Fetches in flight for a chunk key.
InFlight(bag, key) ==
    LET S == {f \in BagToSet(bag) : f.key = key}
    IN  IF S = {} THEN 0 ELSE CopiesIn(CHOOSE f \in S : TRUE, bag)

CompletionOps == {"assetLoaded", "assetFailed", "poisFetched", "poisFailed"}

\* The data of a POI list, without the buttons.
PoiData(pois) ==
    [i \in DOMAIN pois |->
        [x |-> pois[i].x, y |-> pois[i].y, name |-> pois[i].name, zoomBox |-> pois[i].zoomBox]]

(***************************************************************************)
(* C1: right after a pass of updateChunks that ran with the manifest       *)
(* loaded, every resident chunk is within loadDistance + 1 chunks          *)
(* (Chebyshev) of the boat's chunk.                                        *)
(***************************************************************************)
C1_ResidentWithinUnloadRadius ==
    AfterPass =>
        \A key \in DOMAIN coastline.chunks :
            Chebyshev(coastline.chunks[key].x, coastline.chunks[key].y, Center)
                <= (loadDistance + 1) * chunkSize

\* A pass has just evicted a chunk.
C1_Witness == AfterPass /\ lastPass.evicted # {}

(***************************************************************************)
(* C2: right after such a pass, a coordinate within loadDistance chunks    *)
(* of the boat's chunk is resident exactly if the chunk manifest has a     *)
(* record for it, and no resident entry is without a manifest record.      *)
(***************************************************************************)
C2_LoadRadiusResident ==
    AfterPass =>
        /\ \A dx \in -loadDistance..loadDistance, dy \in -loadDistance..loadDistance :
            LET x == Center.chunkX + dx * chunkSize
                y == Center.chunkY + dy * chunkSize
            IN  HasRecord(coastline.chunkIndex, x, y) <=> <<x, y>> \in DOMAIN coastline.chunks
        /\ \A key \in DOMAIN coastline.chunks :
            HasRecord(coastline.chunkIndex, coastline.chunks[key].x, coastline.chunks[key].y)

\* A pass has just created the entry of a coordinate that has a record,
\* and left the boat's own chunk, which has none, without an entry.
C2_Witness ==
    /\ AfterPass
    /\ lastPass.created # {}
    /\ ~HasRecord(coastline.chunkIndex, Center.chunkX, Center.chunkY)
    /\ <<Center.chunkX, Center.chunkY>> \notin DOMAIN coastline.chunks

(***************************************************************************)
(* C3: loadChunk on a resident coordinate is a no-op.  In every state,     *)
(* calling it for a resident entry's coordinate returns the state it was   *)
(* given, and every entry is stored under the key of its own coordinate;   *)
(* and a game-loop step starts no asset fetch and no POI fetch for a key   *)
(* that was resident before it, and leaves the loaded flag, the texture    *)
(* and the POI data of an entry it keeps as they were.                     *)
(***************************************************************************)
C3_LoadChunkIdempotent ==
    /\ [](\A key \in DOMAIN coastline.chunks :
            /\ getChunkKey(coastline.chunks[key].x, coastline.chunks[key].y) = key
            /\ loadChunk(This, coastline.chunks[key].x, coastline.chunks[key].y) = This)
    /\ [][lastOp'.op = "tick" =>
            \A key \in DOMAIN coastline.chunks :
                /\ InFlight(pending'.assets, key) = InFlight(pending.assets, key)
                /\ InFlight(pending'.pois, key) = InFlight(pending.pois, key)
                /\ key \in DOMAIN coastline'.chunks =>
                    /\ coastline'.chunks[key].loaded = coastline.chunks[key].loaded
                    /\ coastline'.chunks[key].texture = coastline.chunks[key].texture
                    /\ PoiData(coastline'.chunks[key].pois) = PoiData(coastline.chunks[key].pois)
         ]_vars

\* A pass has just called loadChunk for a coordinate inside the load
\* radius that was resident already, with its fetches still in flight.
C3_Witness ==
    /\ AfterPass
    /\ \E key \in DOMAIN coastline.chunks \ lastPass.created :
        /\ Chebyshev(key[1], key[2], Center) <= loadDistance * chunkSize
        /\ InFlight(pending.assets, key) = 1
        /\ InFlight(pending.pois, key) = 1

(***************************************************************************)
(* C4: no pass of updateChunks both creates and evicts the same chunk,     *)
(* and a chunk evicted by one pass is not created by the next pass when    *)
(* the boat's chunk moved by at most one chunk per axis in between.        *)
(***************************************************************************)
C4_Hysteresis ==
    /\ [](lastPass.created \cap lastPass.evicted = {})
    /\ [][ ( /\ lastOp'.op = "tick"
             /\ Abs(Center'.chunkX - Center.chunkX) <= chunkSize
             /\ Abs(Center'.chunkY - Center.chunkY) <= chunkSize )
           => lastPass'.created \cap lastPass.evicted = {}
         ]_vars

\* The pass before the latest one evicted a chunk, the boat has come one
\* chunk closer to it since, and the latest pass has not created it again.
C4_Witness ==
    /\ AfterPass
    /\ \E key \in lastPass.prevEvicted :
        /\ Chebyshev(key[1], key[2], Center) = (loadDistance + 1) * chunkSize
        /\ key \notin DOMAIN coastline.chunks

(***************************************************************************)
(* C5: while indexLoaded is false there is no chunk entry and no asset or  *)
(* POI fetch in flight; once loading the chunk manifest has failed,        *)
(* indexLoaded is false, and the failure is final.                         *)
(***************************************************************************)
C5_NothingBeforeManifest ==
    /\ [](~coastline.indexLoaded =>
            /\ DOMAIN coastline.chunks = {}
            /\ pending.assets = EmptyBag
            /\ pending.pois = EmptyBag)
    /\ [](pending.chunkIndex = "failed" => ~coastline.indexLoaded)
    /\ [][pending.chunkIndex = "failed" => pending'.chunkIndex = "failed"]_vars

\* The manifest failed to load, the POI manifest loaded, and the game loop
\* has run since and moved the boat.
C5_Witness ==
    /\ pending.chunkIndex = "failed"
    /\ coastline.poiIndexLoaded
    /\ lastOp.op = "tick"
    /\ boat.x # StartX

(***************************************************************************)
(* C6: the callback of an asset fetch or of a POI fetch, on success or on  *)
(* failure, that runs while its key has no resident entry leaves the       *)
(* resident map and the graphics as they were, and nothing it throws goes  *)
(* unhandled.                                                              *)
(***************************************************************************)
C6_LateCompletionDropped ==
    [][ (lastOp'.op \in CompletionOps /\ ~lastOp'.resident) =>
            /\ coastline' = coastline
            /\ coastlineContainer' = coastlineContainer
            /\ ~unhandled'
      ]_vars

\* An asset fetch has just settled for a chunk the latest pass evicted.
C6_Witness ==
    /\ lastOp.op \in {"assetLoaded", "assetFailed"}
    /\ ~lastOp.resident
    /\ lastOp.key \in lastPass.evicted

(***************************************************************************)
(* C7: when a POI fetch succeeds, the POI list of the file is attached to  *)
(* the entry of its key if that key is resident, and nothing else of the   *)
(* resident map changes; if the key is not resident the resident map is    *)
(* unchanged; in both cases no error goes unhandled.                       *)
(***************************************************************************)
C7_PoisAttachedOnlyIfResident ==
    [][ lastOp'.op = "poisFetched" =>
            LET key == lastOp'.key
                file == PoiManifest[Find(PoiManifest, key[1], key[2])].fileName
            IN  /\ ~unhandled'
                /\ IF key \in DOMAIN coastline.chunks
                   THEN /\ DOMAIN coastline'.chunks = DOMAIN coastline.chunks
                        /\ PoiData(coastline'.chunks[key].pois) = PoiFile(file)
                        /\ \A i \in DOMAIN coastline'.chunks[key].pois :
                                coastline'.chunks[key].pois[i].renderer = << >>
                        /\ coastline'.chunks =
                                [coastline.chunks EXCEPT ![key].pois = coastline'.chunks[key].pois]
                   ELSE coastline'.chunks = coastline.chunks
      ]_vars

\* A POI fetch has just succeeded for a chunk the latest pass evicted.
C7_Witness ==
    /\ lastOp.op = "poisFetched"
    /\ ~lastOp.resident
    /\ lastOp.key \in lastPass.evicted
    /\ lastOp.key \notin DOMAIN coastline.chunks

(***************************************************************************)
(* C8: a failed asset fetch leaves its key without a resident entry; and   *)
(* a pass of updateChunks gives every coordinate that has a manifest       *)
(* record, is inside the load radius and has no entry - one removed by a   *)
(* failed fetch in particular - a new entry with loaded = false and no     *)
(* texture, and starts one more asset fetch for it, however often the      *)
(* fetch has failed before.                                                *)
(***************************************************************************)
C8_FailedAssetRetried ==
    [][ /\ lastOp'.op = "assetFailed" => lastOp'.key \notin DOMAIN coastline'.chunks
        /\ (lastOp'.op = "tick" /\ coastline.indexLoaded) =>
            \A i \in 1..Len(coastline.chunkIndex) :
                LET x == coastline.chunkIndex[i].x
                    y == coastline.chunkIndex[i].y
                    key == getChunkKey(x, y)
                IN  ( /\ key \notin DOMAIN coastline.chunks
                      /\ Chebyshev(x, y, Center') <= loadDistance * chunkSize )
                    =>  /\ key \in DOMAIN coastline'.chunks
                        /\ ~coastline'.chunks[key].loaded
                        /\ coastline'.chunks[key].texture = NULL
                        /\ InFlight(pending'.assets, key) = InFlight(pending.assets, key) + 1
      ]_vars

\* The step before the latest pass was a failed asset fetch that removed a
\* resident entry, and the pass has created the entry again.
C8_Witness ==
    /\ AfterPass
    /\ \E key \in lastPass.retried :
        /\ key \in DOMAIN coastline.chunks
        /\ ~coastline.chunks[key].loaded
        /\ InFlight(pending.assets, key) >= 1

(***************************************************************************)
(* C9: a failed POI fetch changes nothing of the cache: the chunk stays    *)
(* resident with the POI list it had (the empty one it was created with,   *)
(* when no POI list has been attached), its loaded flag and texture stay,  *)
(* its asset fetch stays in flight, and no error goes unhandled; and an    *)
(* entry that is not loaded has an asset fetch in flight that can still    *)
(* load it.                                                                *)
(***************************************************************************)
C9_PoiFailureNonFatal ==
    /\ [][ lastOp'.op = "poisFailed" =>
            /\ coastline' = coastline
            /\ pending'.assets = pending.assets
            /\ coastlineContainer' = coastlineContainer
            /\ ~unhandled'
         ]_vars
    /\ [](\A key \in DOMAIN coastline.chunks :
            ~coastline.chunks[key].loaded => InFlight(pending.assets, key) >= 1)

\* A POI fetch has just failed for a resident chunk that is not loaded yet
\* and has the empty POI list.
C9_Witness ==
    /\ lastOp.op = "poisFailed"
    /\ lastOp.resident
    /\ lastOp.key \in DOMAIN coastline.chunks
    /\ coastline.chunks[lastOp.key].pois = << >>
    /\ ~coastline.chunks[lastOp.key].loaded
    /\ InFlight(pending.pois, lastOp.key) = 0

(***************************************************************************)
(* C10: right after a pass of updateChunks, no POI button made for a POI   *)
(* of a chunk the pass evicted is left in the render container.            *)
(***************************************************************************)
C10_ButtonsDestroyedWithChunk ==
    AfterPass =>
        \A id \in BagToSet(coastlineContainer.buttons) : id[1] \notin lastPass.evicted

(***************************************************************************)
(* C11: in every state boat.speed is at most maxSpeed and at least the     *)
(* lower bound of its clamp range, the reverse-rowing cap -0.2 (the lower  *)
(* of the two bounds the range is given with).                             *)
(***************************************************************************)
C11_SpeedWithinClamp ==
    /\ boat.speed <= maxSpeed
    /\ boat.speed >= maxBackwardsRowSpeed

(***************************************************************************)
(* C12: in every state rudderAngle is within [-30, 30] and sailAngle is    *)
(* within [-180, 0], whatever keys and mouse buttons are held, opposing    *)
(* ones together included.                                                 *)
(***************************************************************************)
C12_RudderAndTrimInRange ==
    /\ boat.rudderAngle >= -30
    /\ boat.rudderAngle <= 30
    /\ boat.sailAngle >= -180
    /\ boat.sailAngle <= 0

\* A frame has just run with both rudder keys and both mouse buttons held,
\* the rudder at its limit and the sail one step off its limit.
C12_Witness ==
    /\ lastInput.kind = "frame"
    /\ keys["a"] /\ keys["d"]
    /\ mouseDown["left"] /\ mouseDown["right"]
    /\ boat.rudderAngle = -30
    /\ boat.sailAngle = -178

(***************************************************************************)
(* C13: in every state sailHeight is 0 or 1, so within [0, 1], and never   *)
(* a value in between.                                                     *)
(***************************************************************************)
C13_SailHeightZeroOrOne == boat.sailHeight \in {0, SailUp}

\* A frame has just raised the sail.
C13_Witness ==
    /\ lastInput.kind = "frame"
    /\ lastInput.flipped
    /\ boat.sailHeight = SailUp

\* The length of the shorter of the two arcs between two angles.
ArcDistance(a, b) ==
    LET d == (a - b) % TwoPi
    IN  IF d <= TwoPi - d THEN d ELSE TwoPi - d

(***************************************************************************)
(* C14: in every state, so after every updateWind step, wind.angle is in   *)
(* [0, 2 pi).                                                              *)
(***************************************************************************)
C14_WindAngleNormalized ==
    /\ wind.angle >= 0
    /\ wind.angle < TwoPi

\* updateWind has just moved the angle from 0 down across the wrap.
C14_Witness ==
    /\ lastWind.op = "moved"
    /\ lastWind.angle = 0
    /\ wind.angle = TwoPi - changeRate

(***************************************************************************)
(* C15: a step that moves wind.angle takes it changeRate closer to         *)
(* targetAngle along the shorter arc: the shorter-arc distance to the      *)
(* target shrinks by changeRate.                                           *)
(***************************************************************************)
C15_MovesAlongShorterArc ==
    [][ wind.angle' # wind.angle =>
            ArcDistance(wind.angle', wind.targetAngle)
                = ArcDistance(wind.angle, wind.targetAngle) - changeRate
      ]_vars

(***************************************************************************)
(* C16: a step that starts with the shorter-arc distance between           *)
(* wind.angle and wind.targetAngle at most targetThreshold draws a new     *)
(* target and leaves the angle where it is.                                *)
(***************************************************************************)
C16_RedrawWithinThreshold ==
    [][ ArcDistance(wind.angle, wind.targetAngle) <= targetThreshold =>
            /\ lastWind'.op = "drew"
            /\ wind'.angle = wind.angle
      ]_vars

(***************************************************************************)
(* C17: a step changes wind.targetAngle only if it starts with the         *)
(* shorter-arc distance between wind.angle and wind.targetAngle at most    *)
(* targetThreshold; a step that moves the angle leaves the target.         *)
(***************************************************************************)
C17_TargetRedrawnOnlyWithinThreshold ==
    [][ /\ wind.targetAngle' # wind.targetAngle =>
            ArcDistance(wind.angle, wind.targetAngle) <= targetThreshold
        /\ lastWind'.op = "moved" => wind.targetAngle' = wind.targetAngle
      ]_vars

\* updateWind has just drawn a target that is farther than the threshold
\* from the angle, which the target before it was not.
C17_Witness ==
    /\ lastWind.op = "drew"
    /\ wind.angle = lastWind.angle
    /\ ArcDistance(wind.angle, wind.targetAngle) > targetThreshold

(***************************************************************************)
(* C18: a new target is drawn again and again, so from every state a draw  *)
(* comes after finitely many frames; and a step that starts with           *)
(* wind.angle equal to wind.targetAngle draws in that very step.           *)
(***************************************************************************)
C18_WindNeverStuck ==
    /\ []<>(lastWind.op = "drew")
    /\ [][ wind.angle = wind.targetAngle =>
            /\ lastWind'.op = "drew"
            /\ wind'.angle = wind.angle
         ]_vars

\* updateWind has just drawn a target from an angle that was exactly the
\* target.
C18_Witness ==
    /\ lastWind.op = "drew"
    /\ lastWind.exact

\* Nothing is held but the key q.
OnlySailKeyHeld ==
    /\ keys = [k \in KeyNames |-> k = "q"]
    /\ mouseDown = [b \in MouseNames |-> FALSE]
    /\ buttonPressTime = [b \in ButtonNames |-> Undefined]

\* Nothing is held but the on-screen sail button.
OnlySailButtonHeld ==
    /\ keys = [k \in KeyNames |-> FALSE]
    /\ mouseDown = [b \in MouseNames |-> FALSE]
    /\ buttonPressTime["forward"] = Undefined
    /\ buttonPressTime["sail"] # Undefined

C20_PressTimeSetOncePerPress ==
    /\ [][ (lastInput'.kind \in {"keydown", "start"} /\ lastInput'.had) =>
                /\ keyPressTime' = keyPressTime
                /\ buttonPressTime' = buttonPressTime
         ]_vars
    /\ [][ lastInput'.kind \in {"keyup", "stop", "leave"} =>
                /\ lastInput'.type = "key" => keyPressTime'[lastInput'.key] = Undefined
                /\ lastInput'.type = "button" => buttonPressTime'[lastInput'.key] = Undefined
         ]_vars
    /\ [](\A k \in KeyNames : keys[k] <=> keyPressTime[k] # Undefined)

\* The step is a call of gameLoop.
IsFrame == time' # time

\* The POIs of the resident chunks, by chunk key and place in chunk.pois.
PoiIds(chunks) ==
    UNION { { <<key, i>> : i \in DOMAIN chunks[key].pois } : key \in DOMAIN chunks }

\* The POIs of the resident chunks whose asset is loaded.
LoadedPoiIds(chunks) ==
    { id \in PoiIds(chunks) : chunks[id[1]].loaded /\ chunks[id[1]].texture # NULL }

PoiAt(chunks, id) == chunks[id[1]].pois[id[2]]

\* The boat b is within the interaction radius of the POI, the radius
\* included: Euclidean distance, squared, in pixels.
WithinRadius(poi, b) ==
    LET dx == (poi.x * chunkPixelSize) \div chunkSize - b.x
        dy == (-poi.y * chunkPixelSize) \div chunkSize - b.y
    IN  dx * dx + dy * dy <= 80 * 80

(***************************************************************************)
(* C21: a tick that starts with the panel open leaves the whole boat state *)
(* (x, y, angle, speed, rudderAngle, sailAngle, sailHeight) unchanged,     *)
(* whatever inputs are held.                                               *)
(***************************************************************************)
C21_PanelPausesTheBoat ==
    [][ (IsFrame /\ isPanelOpen) => boat' = boat ]_vars

\* A frame has just run with the panel open, the boat under sail at speed
\* and the rudder key held.
C21_Witness ==
    /\ lastOp.op = "tick"
    /\ lastInput.kind = "frame"
    /\ isPanelOpen
    /\ keys["a"]
    /\ boat.speed = SailEquilibrium
    /\ boat.sailHeight = SailUp

(***************************************************************************)
(* C22: every tick runs control, wind, physics, chunk reconciliation and   *)
(* draw in this order, each on the result of the one before: the wind of   *)
(* the tick's end is updateWind of the wind it started with; the boat of   *)
(* the tick's end is updatePhysics under that new wind of the boat that    *)
(* updateControls left; the resident chunks are reconciled around the      *)
(* chunk of the boat's new position; and what is drawn is drawn for the    *)
(* reconciled chunks and the new position.                                 *)
(***************************************************************************)
C22_TickOrder ==
    [][ IsFrame =>
          \E rand \in Randoms :
            LET c == updateControls(ThisGame, now)
                w == updateWind(wind, rand)
                p == updatePhysicsTick([c EXCEPT !.wind = w])
                center == getChunkCoordsFromWorldPos(boat'.x, boat'.y)
            IN  /\ wind' = w
                /\ boat' = p.boat
                /\ keyPressTime' = c.keyPressTime
                /\ buttonPressTime' = c.buttonPressTime
                /\ \A key \in DOMAIN coastline'.chunks :
                        Chebyshev(key[1], key[2], center) <= unloadDist
                /\ \A i \in 1..Len(coastline'.chunkIndex) :
                        Chebyshev(coastline'.chunkIndex[i].x, coastline'.chunkIndex[i].y, center)
                            <= loadDistance * chunkSize
                        => <<coastline'.chunkIndex[i].x, coastline'.chunkIndex[i].y>>
                                \in DOMAIN coastline'.chunks
                /\ coastline'.graphics =
                        { key \in DOMAIN coastline'.chunks : coastline'.chunks[key].loaded }
                /\ BagToSet(coastlineContainer'.buttons) \ BagToSet(coastlineContainer.buttons)
                        \subseteq PoiIds(coastline'.chunks)
                /\ \A id \in LoadedPoiIds(coastline'.chunks) :
                        /\ PoiAt(coastline'.chunks, id).renderer # << >>
                        /\ PoiAt(coastline'.chunks, id).renderer[1].isInteractive
                            = WithinRadius(PoiAt(coastline'.chunks, id), boat')
      ]_vars

\* A frame has just run in which the rudder key was held and the wind
\* veered across a degree: the boat has turned under the rudder angle of
\* this frame and gathered way under the wind of this frame.
C22_Witness ==
    /\ lastOp.op = "tick"
    /\ lastInput.kind = "frame"
    /\ keys["a"]
    /\ boat.rudderAngle = -4
    /\ lastWind.op = "moved"
    /\ toDegrees(lastWind.angle) # toDegrees(wind.angle)
    /\ boat.speed > 0

(***************************************************************************)
(* C23: after every frame, every POI of a resident chunk whose asset is    *)
(* loaded has a button, and the button is interactive if and only if the   *)
(* squared distance from the boat to the POI is at most 80 squared.        *)
(***************************************************************************)
C23_InteractiveIffWithinRadius ==
    lastOp.op = "tick" =>
        \A id \in LoadedPoiIds(coastline.chunks) :
            LET poi == PoiAt(coastline.chunks, id)
            IN  /\ poi.renderer # << >>
                /\ poi.renderer[1].isInteractive <=> WithinRadius(poi, boat)
                /\ poi.renderer[1].eventMode = "static" <=> WithinRadius(poi, boat)

\* A frame has just run with the boat at the radius exactly, 48 and 64
\* pixels from the POIs, and their buttons are interactive.
C23_Witness ==
    /\ lastOp.op = "tick"
    /\ lastInput.kind = "frame"
    /\ Abs(boat.x - HarbourX) = 48
    /\ Abs(boat.y - HarbourY) = 64
    /\ \A id \in LoadedPoiIds(coastline.chunks) :
            /\ PoiAt(coastline.chunks, id).renderer # << >>
            /\ PoiAt(coastline.chunks, id).renderer[1].isInteractive
    /\ LoadedPoiIds(coastline.chunks) # {}

(***************************************************************************)
(* C24: a frame invokes setInteractive on a POI button that existed before *)
(* the frame exactly once if the boat's in-range status for the POI        *)
(* changed over the frame and not at all if it did not; on a button the    *)
(* frame created, which is constructed interactive, exactly once if the    *)
(* POI is out of range and not at all if it is in range.                   *)
(***************************************************************************)
C24_SetInteractiveOnlyOnChange ==
    [][ IsFrame =>
          \A id \in LoadedPoiIds(coastline'.chunks) :
            LET after == PoiAt(coastline'.chunks, id)
                before == buttonOf(ThisGame, id)
            IN  IF before # << >>
                THEN after.renderer[1].calls - before[1].calls =
                        IF WithinRadius(after, boat) # WithinRadius(after, boat') THEN 1 ELSE 0
                ELSE after.renderer[1].calls = IF WithinRadius(after, boat') THEN 0 ELSE 1
      ]_vars

\* A frame has just brought the boat into range: the buttons, made out of
\* range a frame earlier, have had their second call of setInteractive.
C24_Witness ==
    /\ lastOp.op = "tick"
    /\ lastInput.kind = "frame"
    /\ \E id \in LoadedPoiIds(coastline.chunks) :
            /\ PoiAt(coastline.chunks, id).renderer # << >>
            /\ PoiAt(coastline.chunks, id).renderer[1].calls = 2
            /\ PoiAt(coastline.chunks, id).renderer[1].isInteractive

(***************************************************************************)
(* C25: the panel is never open while the camera-focus tween of the POI it *)
(* was opened for is still running; it is opened when that tween           *)
(* completes.                                                              *)
(***************************************************************************)
C25_PanelOpensWhenTweenCompletes ==
    isPanelOpen => \A i \in DOMAIN tweens : tweens[i].onComplete # currentPoi

(***************************************************************************)
(* C26: once the panel is closed and no tween is pending, no POI button of *)
(* a resident chunk is hidden.                                             *)
(***************************************************************************)
C26_ClosedPanelShowsEveryButton ==
    (~isPanelOpen /\ tweens = << >>) =>
        \A id \in PoiIds(coastline.chunks) :
            PoiAt(coastline.chunks, id).renderer # << >>
                => PoiAt(coastline.chunks, id).renderer[1].visible

(***************************************************************************)
(* C27: with chunkPixelSize 1800 and chunkSize 0.5, the boat at world      *)
(* position (0, 0) is addressed to chunk (0, 0) and the boat at            *)
(* (1800, -1800) to chunk (0.5, -0.5).                                     *)
(***************************************************************************)
C27_AddressOfSamplePositions ==
    lastOp.op = "tick" =>
        /\ (boat.x = 0 /\ boat.y = 0) => lastOp.key = <<0, 0>>
        /\ (boat.x = 1800 /\ boat.y = -1800) => lastOp.key = <<5, -5>>

\* C27 as amended: the boat at (0, 0) is addressed to chunk (0, 0) and the
\* boat at (1800, -1800) to chunk (0.5, 0.5): one chunk east and, world y
\* growing southwards, one chunk north.
C27_AddressFlipsTheYAxis ==
    lastOp.op = "tick" =>
        /\ (boat.x = 0 /\ boat.y = 0) => lastOp.key = <<0, 0>>
        /\ (boat.x = 1800 /\ boat.y = -1800) => lastOp.key = <<5, 5>>

\* A pass has addressed the boat at (1800, -1800) and made chunk (0, 0),
\* one chunk away on both axes, resident.
C27_Witness ==
    /\ lastOp.op = "tick"
    /\ boat.x = 1800 /\ boat.y = -1800
    /\ lastOp.key = <<5, 5>>
    /\ <<0, 0>> \in DOMAIN coastline.chunks

(***************************************************************************)
(* C28: with the sail up, sail angle 0, rudder 0, no rowing and the wind   *)
(* aligned with the heading, every tick leaves boat.speed higher than it   *)
(* was until the speed stands still, which it does only within the         *)
(* resolution of the drag equilibrium; the speed never exceeds that        *)
(* equilibrium, and the equilibrium lies strictly below maxSpeed.          *)
(***************************************************************************)
RunningBeforeTheWind ==
    /\ boat.sailHeight = SailUp
    /\ boat.sailAngle = 0
    /\ boat.rudderAngle = 0
    /\ \A k \in KeyNames : ~keys[k]
    /\ relativeWindAngle(wind.angle, boat.angle) = 0
    /\ boat.speed <= SailEquilibrium

C28_SpeedClimbsToEquilibrium ==
    [][ (lastInput'.kind = "frame" /\ RunningBeforeTheWind) =>
            /\ boat'.speed >= boat.speed
            /\ boat'.speed = boat.speed => boat.speed > SailEquilibrium - DragResolution
            /\ boat'.speed <= SailEquilibrium
            /\ SailEquilibrium < maxSpeed
      ]_vars

\* A frame has run before the wind and left the speed within the
\* resolution of the equilibrium.
C28_Witness ==
    /\ lastInput.kind = "frame"
    /\ RunningBeforeTheWind
    /\ boat.speed > SailEquilibrium - DragResolution

(***************************************************************************)
(* C29: a tick with neither rudder key held multiplies rudderAngle by      *)
(* 0.95 (to the whole degree, rounded towards zero): its sign does not     *)
(* flip, its magnitude does not increase, and it does not pass 0.          *)
(***************************************************************************)
C29_RudderDecaysGeometrically ==
    [][ (lastInput'.kind = "frame" /\ ~keys["a"] /\ ~keys["d"]) =>
            /\ boat.rudderAngle * boat'.rudderAngle >= 0
            /\ boat.rudderAngle # 0 => Sign(boat'.rudderAngle) \in {0, Sign(boat.rudderAngle)}
            /\ Abs(boat'.rudderAngle) <= Abs(boat.rudderAngle)
            /\ 100 * Abs(boat'.rudderAngle) <= 95 * Abs(boat.rudderAngle)
            /\ 100 * Abs(boat'.rudderAngle) > 95 * Abs(boat.rudderAngle) - 100
      ]_vars

\* A frame with the rudder released has brought the rudder, once hard to
\* port, to an odd number of degrees, which the keys' steps of two never do.
C29_Witness ==
    /\ lastInput.kind = "frame"
    /\ ~keys["a"] /\ ~keys["d"]
    /\ boat.rudderAngle = -19

(***************************************************************************)
(* Fetches that outlive their entry.  loadChunk starts one fetch for the  *)
(* entry it creates; an eviction deletes the entry and leaves the fetch   *)
(* running.  `stale` counts, by key, the texture fetches in flight whose  *)
(* entry has been deleted; the callbacks cannot tell them from the fetch  *)
(* of the entry that is resident now.  The POI manifest stays pending in  *)
(* this projection, so only texture fetches are in flight.                *)
(***************************************************************************)
\* updateChunks, lines 272-285: every fetch in flight for an evicted key
\* has lost its entry.
staleAfterEviction(st, assets, gone) ==
    LET count(k) == IF k \in gone THEN InFlight(assets, k) ELSE CopiesIn(k, st)
        ks == BagToSet(st) \cup {f.key : f \in BagToSet(assets)}
    IN  [k \in {j \in ks : count(j) > 0} |-> count(k)]

\* loadChunk's .catch, line 222: the entry of the key is deleted, so every
\* fetch still in flight for the key has lost its entry.
staleAfterFailure(st, assets, key) == staleAfterEviction(st, assets, {key})

\* A fetch of the key whose entry was deleted is in flight.
HasStale(key) == CopiesIn(key, stale) > 0

\* The fetch started for the entry that is resident now is in flight.
HasOwn(key) == InFlight(pending.assets, key) > CopiesIn(key, stale)

Outcome(op, key, isStale) ==
    [op |-> op, key |-> key, resident |-> key \in DOMAIN coastline.chunks, stale |-> isStale]

RefetchTick ==
    \E dx \in {-1, 0, 1}, dy \in {-1, 0, 1} :
        LET g0 == updatePhysics(This, dx, dy)
            pass == updateChunksPass(g0)
            g2 == drawCoastline(pass.result)
        IN  /\ InBox(g0.boat)
            /\ WithinCaps(g2)
            /\ CommitCache(g2)
            /\ stale' = staleAfterEviction(stale, pending.assets, pass.evicted)
            /\ lastOp' = Op("tick", NoKey)
            /\ lastPass' =
                [ran |-> pass.ran, created |-> pass.created, evicted |-> pass.evicted,
                 prevEvicted |-> lastPass.evicted,
                 retried |-> IF lastOp.op = "assetFailed" /\ lastOp.resident
                             THEN pass.created \cap {lastOp.key} ELSE {}]

\* PIXI.Assets.load resolved, for a fetch whose entry is gone or for the
\* fetch of the resident entry.
RefetchLoaded ==
    \E f \in BagToSet(pending.assets), isStale \in BOOLEAN :
        /\ IF isStale THEN HasStale(f.key) ELSE HasOwn(f.key)
        /\ CommitCache(assetThen([This EXCEPT !.pending.assets = @ (-) SetToBag({f})], f.key, f.fileName))
        /\ stale' = IF isStale THEN stale (-) SetToBag({f.key}) ELSE stale
        /\ lastOp' = Outcome("assetLoaded", f.key, isStale)
        /\ UNCHANGED lastPass

\* PIXI.Assets.load rejected, likewise.
RefetchFailed ==
    \E f \in BagToSet(pending.assets), isStale \in BOOLEAN :
        /\ IF isStale THEN HasStale(f.key) ELSE HasOwn(f.key)
        /\ CommitCache(assetCatch([This EXCEPT !.pending.assets = @ (-) SetToBag({f})], f.key))
        /\ stale' = staleAfterFailure(stale, pending.assets (-) SetToBag({f}), f.key)
        /\ lastOp' = Outcome("assetFailed", f.key, isStale)
        /\ UNCHANGED lastPass

RefetchNext ==
    \/ ChunkIndexLoaded
    \/ RefetchTick
    \/ RefetchLoaded
    \/ RefetchFailed

RefetchSpec == Init /\ [][RefetchNext]_vars

\* C30: the late success or failure of a fetch whose entry was evicted
\* leaves the entry that is resident under the same key as it was: it
\* neither marks it loaded nor removes it.
C30_LateOutcomeLeavesNewEntry ==
    [][ ( /\ lastOp'.op \in {"assetLoaded", "assetFailed"}
          /\ lastOp'.stale
          /\ lastOp'.key \in DOMAIN coastline.chunks )
        => ( /\ lastOp'.key \in DOMAIN coastline'.chunks
             /\ coastline'.chunks[lastOp'.key].loaded = coastline.chunks[lastOp'.key].loaded ) ]_vars

\* C31: whichever manifest finishes loading first, a pass that creates the
\* entry of a coordinate with a record in the POI manifest starts a POI
\* fetch for it (the POI manifest's request has not failed).
C31_EveryEntryGetsPoiFetch ==
    [][ (lastOp'.op = "tick" /\ pending.poiIndex # "failed")
        => \A key \in lastPass'.created :
                HasRecord(PoiManifest, key[1], key[2])
                    => InFlight(pending'.pois, key) = InFlight(pending.pois, key) + 1 ]_vars

\* C32: every key of coastline.graphics is the key of a resident entry
\* that is loaded and has a texture.
C32_GraphicOnlyForLoadedResident ==
    \A key \in coastline.graphics :
        /\ key \in DOMAIN coastline.chunks
        /\ coastline.chunks[key].loaded
        /\ coastline.chunks[key].texture # NULL

\* C33: a texture fetch that succeeds for a resident key leaves the entry
\* loaded with its texture, and a loaded entry stays resident and loaded,
\* texture attached, through every step that does not evict it.
C33_LoadedUntilEvicted ==
    [][ /\ (lastOp'.op = "assetLoaded" /\ lastOp'.key \in DOMAIN coastline.chunks)
            => /\ lastOp'.key \in DOMAIN coastline'.chunks
               /\ coastline'.chunks[lastOp'.key].loaded
               /\ coastline'.chunks[lastOp'.key].texture # NULL
        /\ \A key \in DOMAIN coastline.chunks :
            (coastline.chunks[key].loaded /\ ~(lastOp'.op = "tick" /\ key \in lastPass'.evicted))
                => /\ key \in DOMAIN coastline'.chunks
                   /\ coastline'.chunks[key].loaded
                   /\ coastline'.chunks[key].texture # NULL ]_vars

\* C34: the rowing of a tick changes boat.speed by at most rowingForce and
\* toward the cap: with w held (and s not) updateControls never lowers the
\* speed, with s held (and w not) it never raises it, whatever the speed.
C34_RowingNudgesTowardCap ==
    LET c == updateControls(ThisInput, now)
    IN  /\ (keys["w"] /\ ~keys["s"])
            => (c.boat.speed >= boat.speed /\ c.boat.speed <= boat.speed + rowingForce)
        /\ (keys["s"] /\ ~keys["w"])
            => (c.boat.speed <= boat.speed /\ c.boat.speed >= boat.speed - rowingForce)

\* C35: a step changes sailHeight only if it is a frame taken while a sail
\* toggle (the key q or the on-screen sail button) has been held for 1000 ms
\* or more; no other input and no shorter press changes sailHeight.
C35_OnlyHeldToggleChangesSailHeight ==
    [][ boat'.sailHeight # boat.sailHeight =>
            /\ lastInput'.kind = "frame"
            /\ \/ (keys["q"] /\ keyPressTime["q"] # Undefined
                             /\ now - keyPressTime["q"] >= SHORT_PRESS_DURATION)
               \/ (buttonPressTime["sail"] # Undefined
                             /\ now - buttonPressTime["sail"] >= SHORT_PRESS_DURATION)
      ]_vars

\* drawCoastline, lines 763-766: the world position at which the graphic of
\* a chunk is placed.  chunkPixelSize / chunkSize is a whole number of
\* pixels per tenth, so the division is exact.
chunkPlaceSameSign(chunkX, chunkY) ==
    [ x |-> (chunkX * chunkPixelSize) \div chunkSize,
      y |-> (chunkY * chunkPixelSize) \div chunkSize ]

chunkPlace(chunkX, chunkY) ==
    [ x |-> (chunkX * chunkPixelSize) \div chunkSize,
      y |-> ((-chunkY) * chunkPixelSize) \div chunkSize ]

\* The chunk coordinates the load loops of a pass visit around the boat.
Visited ==
    LET c == getChunkCoordsFromWorldPos(boat.x, boat.y)
    IN  { <<c.chunkX + dx * chunkSize, c.chunkY + dy * chunkSize>> :
            dx \in -loadDistance..loadDistance, dy \in -loadDistance..loadDistance }

\* C36: the place at which a chunk is drawn is addressed back to the chunk:
\* for every coordinate the pass visits and for every entry that has a
\* graphic, getChunkCoordsFromWorldPos of the place of (cx, cy) is (cx, cy),
\* and the key built from it is the key the entry is stored under.
C36_PlacementAgreesWithAddressing ==
    lastOp.op = "tick" =>
        /\ \A v \in Visited :
            LET p == chunkPlace(v[1], v[2])
                c == getChunkCoordsFromWorldPos(p.x, p.y)
            IN  c.chunkX = v[1] /\ c.chunkY = v[2]
        /\ \A key \in coastline.graphics \cap DOMAIN coastline.chunks :
            LET chunk == coastline.chunks[key]
                p == chunkPlace(chunk.x, chunk.y)
                c == getChunkCoordsFromWorldPos(p.x, p.y)
            IN  getChunkKey(c.chunkX, c.chunkY) = key

\* A frame has drawn the harbour chunk, which lies north of the equator of
\* the chunk grid and so at a negative world y, with the boat close enough
\* for the pass to visit it.
C36_Witness ==
    /\ lastOp.op = "tick"
    /\ HarbourKey \in coastline.graphics
    /\ HarbourKey \in DOMAIN coastline.chunks
    /\ HarbourKey \in Visited
    /\ chunkPlace(HarbourKey[1], HarbourKey[2]).y < 0

(***************************************************************************)
(* The pause: the boat at rest within reach of the POIs, the sail toggle   *)
(* q, and the clock.  The run starts with the panel just opened on the     *)
(* POI that has no zoomBox, the key q either up or pressed right before.   *)
(* The harbour entry is the second one made for its key: the POI fetch of  *)
(* the first, evicted, entry is still in flight.  The clock advances only  *)
(* while the panel is open, so the time a press lasts is time spent in     *)
(* the pause.                                                              *)
(***************************************************************************)
\* The game before the first frame that draws the harbour chunk.
PauseStart ==
    [ boat |-> Moored(HarbourX + 45, HarbourY + 64),
      wind |-> [newWind(0, RandScale \div 2) EXCEPT !.angle = 3108],
      coastline |->
        [ chunks |->
            (HarbourKey :>
                [x |-> HarbourKey[1], y |-> HarbourKey[2],
                 texture |-> "chunk_45_605.png", loaded |-> TRUE,
                 pois |-> poiThen([coastline |-> [chunks |-> (HarbourKey :> [pois |-> << >>])]],
                                  HarbourKey, PoiFile(HarbourFile)).g.coastline.chunks[HarbourKey].pois]),
          chunkIndex |-> ChunkManifest, poiIndex |-> PoiManifest,
          indexLoaded |-> TRUE, poiIndexLoaded |-> TRUE, graphics |-> {} ],
      pending |->
        [ chunkIndex |-> "loaded", poiIndex |-> "loaded",
          assets |-> EmptyBag,
          pois |-> SetToBag({[key |-> HarbourKey, fileName |-> HarbourFile]}) ],
      coastlineContainer |-> [chunks |-> {}, buttons |-> EmptyBag],
      unhandled |-> FALSE,
      keys |-> [k \in KeyNames |-> FALSE],
      keyPressTime |-> [k \in KeyNames |-> Undefined],
      mouseDown |-> [b \in MouseNames |-> FALSE],
      buttonPressTime |-> [b \in ButtonNames |-> Undefined],
      isPanelOpen |-> FALSE, currentPoi |-> NoKey, tweens |-> << >>, time |-> 0 ]

\* One frame has drawn the chunk and made the buttons.
PauseDrawn == gameLoop(PauseStart, 0, 0).draw

\* The player has pressed the button of the second POI.
PauseOpened == pointerdown(PauseDrawn, <<HarbourKey, 2>>)

\* The same with the key q pressed before the panel opened.
PauseOpenedHeld == keydown(PauseOpened, "q", 0)

PauseInit ==
    \E s \in {PauseOpened, PauseOpenedHeld} :
        /\ boat = s.boat
        /\ wind = s.wind
        /\ coastline = s.coastline
        /\ pending = s.pending
        /\ coastlineContainer = s.coastlineContainer
        /\ unhandled = s.unhandled
        /\ keys = s.keys
        /\ keyPressTime = s.keyPressTime
        /\ mouseDown = s.mouseDown
        /\ buttonPressTime = s.buttonPressTime
        /\ isPanelOpen = s.isPanelOpen
        /\ currentPoi = s.currentPoi
        /\ tweens = s.tweens
        /\ time = s.time
        /\ now = 0
        /\ stale = EmptyBag
        /\ lastOp = [op |-> "poiClick", key |-> HarbourKey, resident |-> TRUE]
        /\ lastPass = NoPass
        /\ lastWind = NoWind
        /\ lastInput = NoInput

PauseKeys == {"q"}

\* Most quanta of time spent in the pause.
MaxPause == 2

\* Date.now() advances between two events while the panel is open.
PausedTimePasses == isPanelOpen /\ now < MaxPause * Quantum /\ TimePasses

PauseNext ==
    \/ \E key \in PauseKeys : KeyDown(key)
    \/ \E key \in PauseKeys : KeyUp(key)
    \/ PausedTimePasses
    \/ CloseClick
    \/ TweenCompleted
    \/ GameLoop
    \/ PoisFetched

PauseSpec == PauseInit /\ [][PauseNext]_vars

\* C37: the pause covers only the controls and the boat.  In a frame taken
\* with the panel open the wind makes its step, updateChunks and
\* drawCoastline do to the cache and the buttons what they do to the state
\* the frame starts in, and the boat and the press times stay; with the
\* panel open only a key event changes a press time, and a key pressed then
\* gets the time of the press; and in the first frame after the panel is
\* closed, the key q held since 1000 ms or more flips sailHeight and gets
\* the time of the frame as its press time.
C37_PauseCoversControlsAndBoatOnly ==
    [][ /\ (IsFrame /\ isPanelOpen) =>
            /\ \E rand \in Randoms : wind' = updateWind(wind, rand)
            /\ lastWind'.op = "moved" => wind'.angle # wind.angle
            /\ LET d == drawCoastline(updateChunks(ThisGame))
               IN  /\ coastline' = d.coastline
                   /\ pending' = d.pending
                   /\ coastlineContainer' = d.coastlineContainer
            /\ boat' = boat
            /\ keyPressTime' = keyPressTime
            /\ buttonPressTime' = buttonPressTime
        /\ (isPanelOpen /\ lastInput'.kind \notin {"keydown", "keyup"}) =>
            keyPressTime' = keyPressTime
        /\ (isPanelOpen /\ lastInput'.kind = "keydown" /\ ~lastInput'.had) =>
            keyPressTime'[lastInput'.key] = now
        /\ (IsFrame /\ ~isPanelOpen /\ lastOp.op = "closeClick"
                    /\ keys["q"] /\ now - keyPressTime["q"] >= SHORT_PRESS_DURATION) =>
            /\ boat'.sailHeight = SailUp - boat.sailHeight
            /\ keyPressTime'["q"] = now
      ]_vars

\* The key q was held through 1000 ms of pause, the panel is closed, and
\* the frame after has just flipped the sail; a POI fetch that resolved
\* meanwhile has given the chunk a second pair of buttons.
C37_Witness ==
    /\ lastOp.op = "tick"
    /\ lastInput.kind = "frame"
    /\ lastInput.flipped
    /\ ~isPanelOpen
    /\ keys["q"]
    /\ now = SHORT_PRESS_DURATION
    /\ keyPressTime["q"] = now
    /\ \E id \in BagToSet(coastlineContainer.buttons) : CopiesIn(id, coastlineContainer.buttons) = 2

(***************************************************************************)
(* A POI without a usable zoomBox.                                         *)
(***************************************************************************)
\* zoomBox values the guard of zoomToPoiBox turns away: none, three numbers,
\* five numbers.
BadZoomBoxes == { << >>, <<46, 606, 48>>, <<46, 606, 48, 608, 0>> }

\* The POIs of resident chunks that have a button.
Buttoned(s) ==
    { id \in UNION { { <<key, i>> : i \in DOMAIN s.coastline.chunks[key].pois } :
                        key \in DOMAIN s.coastline.chunks } :
        buttonOf(s, id) # << >> }

NoZoomBox(s, id) == Len(s.coastline.chunks[id[1]].pois[id[2]].zoomBox) # 4

\* C38: activating a POI whose zoomBox is missing or is not four numbers
\* starts no camera tween, and its button is never hidden: no pending
\* tween carries the callback that would hide it and the button stays
\* visible.  The activation still opens the panel on that POI, and the
\* frames that follow leave the boat alone.  Closing the panel starts one
\* tween without a callback whose target is the view the game started
\* with, and closes the panel.
C38_NoZoomBoxOpensPanelWithoutTween ==
    [][ /\ \A id \in Buttoned(ThisGame) : \A zoomBox \in BadZoomBoxes :
            LET s == [ThisGame EXCEPT !.coastline.chunks[id[1]].pois[id[2]].zoomBox = zoomBox]
                after == onClickCallback(s, id)
            IN  /\ after.tweens = tweens
                /\ after.isPanelOpen
                /\ after.currentPoi = id
                /\ buttonOf(after, id) = buttonOf(s, id)
        /\ \A id \in Buttoned(ThisGame) :
            (NoZoomBox(ThisGame, id) /\ lastOp'.op = "poiClick" /\ currentPoi' = id)
                => /\ tweens' = tweens
                   /\ isPanelOpen'
                   /\ buttonOf(ThisGame, id)[1].visible'
        /\ \A id \in Buttoned(ThisGame)' :
            NoZoomBox(ThisGame, id)'
                => /\ buttonOf(ThisGame, id)[1].visible'
                   /\ \A i \in DOMAIN tweens' : tweens'[i].onComplete # id
        /\ (lastOp'.op = "tick" /\ isPanelOpen /\ currentPoi # NoKey
            /\ currentPoi \in Buttoned(ThisGame) /\ NoZoomBox(ThisGame, currentPoi))
                => boat' = boat
        /\ (lastOp'.op = "closeClick" /\ isPanelOpen /\ currentPoi \in Buttoned(ThisGame)
            /\ NoZoomBox(ThisGame, currentPoi))
                => /\ tweens' = Append(tweens, [to |-> OriginalView, onComplete |-> NoKey])
                   /\ ~isPanelOpen'
                   /\ buttonOf(ThisGame, currentPoi)[1].visible'
      ]_vars

\* The panel was opened on the POI without zoomBox and has just been
\* closed: the only tween pending is the one back to the view the game
\* started with, and the button is still visible.
C38_Witness ==
    /\ lastOp.op = "closeClick"
    /\ ~isPanelOpen
    /\ currentPoi = <<HarbourKey, 2>>
    /\ currentPoi \in Buttoned(ThisGame)
    /\ NoZoomBox(ThisGame, currentPoi)
    /\ tweens = << [to |-> OriginalView, onComplete |-> NoKey] >>
    /\ buttonOf(ThisGame, currentPoi)[1].visible

====
